---- MODULE Spec2Model ----
(***************************************************************************)
(* BankFusion: extraction of raw transactions from a bank statement        *)
(* (backend/pdf_extractor.py), their normalisation                          *)
(* (backend/hybrid_normalizer.py) and their persistence                     *)
(* (backend/services/pdf_processor.py).                                     *)
(*                                                                          *)
(* Money is counted in hundredths of a rupee (paise), so the float 100.0   *)
(* of the code is the integer 10000 here.  Text the code inspects with     *)
(* regular expressions is drawn from small, explicit universes of strings; *)
(* each regular expression is the set of strings of the universe it        *)
(* matches.  Amount cells are sequences of characters, so that             *)
(* parse_amount_improved is computed the way the code computes it.         *)
(***************************************************************************)
EXTENDS Integers, Sequences, FiniteSets, TLC

VARIABLES
    state,                \* CBI line machine: WAIT_FOR_TRANSACTION / READ_TRANSACTION_LINES
    current_transaction,  \* CBI line machine: the transaction being read, or NoTxn
    transactions,         \* the list an extractor builds and returns
    status,               \* "running", "returned", "raised", "stored"
    anchors,              \* history: the value-date lines read so far, in order
    described,            \* history: did a line with a description pattern follow the open anchor
    undescribed,          \* history: has an anchor been closed with no such line after it
    bank,                 \* the bank detect_bank found on the first page
    consumed,             \* table and text extraction: the rows or lines read so far
    sources,              \* history: the table row each transaction was built from
    genuine,              \* history: the rows read that carry a date and a genuine amount
    statements,           \* MongoDB collection bank_statements (number of documents)
    stored,               \* MongoDB collection bank_transactions (documents, in insertion order)
    text,                 \* apply_global_rules: the words of the description it is handed
    suggested_result,     \* apply_global_rules: the suggestion it is handed
    debit_amount,         \* apply_global_rules: the debit of the row, in paise
    credit_amount,        \* apply_global_rules: the credit of the row, in paise
    final_result,         \* apply_global_rules: what it returns, or NoResult before the call
    openai_enabled,       \* is_openai_enabled(): the advisory service is available and not disabled
    advisory,             \* what the advisory service does when normalize_transaction calls it
    documents,            \* per upload: the bank name and raw transactions extracted from its PDF
    phase,                \* per upload: where process_pdf_to_mongodb stands
    completed,            \* per upload: the rows the pool has normalised, in order of completion
    normalized_transactions, \* per upload: the list built from the results of executor.map
    auth_failed,          \* history, per upload: an advisory call was refused as unauthorized
    statements_col,       \* collection bank_statements: its documents, in insertion order
    transactions_col,     \* collection bank_transactions: its documents, in insertion order
    deletion,             \* per request: where StatementRepository.delete stands
    pdf,                  \* extract_account_info: what each extraction step finds in the PDF
    account_info,         \* extract_account_info: the dictionary it fills and returns
    account_pc,           \* extract_account_info: "start", "returned", then "stored" by the caller
    batch,                \* batch_processor / process_directory: the files and where the loop stands
    upload_folder,        \* UPLOAD_FOLDER: per file name, whose bytes the file holds, or "absent"
    upload_requests       \* per POST /upload request: file name, user and where the handler stands

vars == <<state, current_transaction, transactions, status, anchors, described,
          undescribed, bank, consumed, sources, genuine, statements, stored,
          text, suggested_result, debit_amount, credit_amount, final_result,
          openai_enabled, advisory, documents, phase, completed, normalized_transactions,
          auth_failed, statements_col, transactions_col, deletion,
          pdf, account_info, account_pc, batch, upload_folder, upload_requests>>

\* The variables of the line machine, of the table and text extractors, of the store.
cbiVars == <<state, current_transaction, anchors, described, undescribed>>
tableVars == <<consumed, sources, genuine>>
dbVars == <<statements, stored>>
normVars == <<text, suggested_result, debit_amount, credit_amount, final_result>>
accountVars == <<pdf, account_info, account_pc>>
ioVars == <<batch, upload_folder, upload_requests>>
runVars == <<openai_enabled, advisory, documents, phase, completed, normalized_transactions,
            auth_failed, statements_col, transactions_col, deletion, accountVars, ioVars>>

\* What the advisory service does when it is called: the kind of its response and,
\* for an answer, the fields of the JSON object.
Response(kind, merchant, category, channel, debit_or_credit) ==
    [ kind |-> kind, merchant |-> merchant, category |-> category, channel |-> channel,
      debit_or_credit |-> debit_or_credit ]
NoResponse == Response("none", "", "", "", "")

\* No call of apply_global_rules has been made: the extraction specifications
\* leave the normaliser in this state.
NoResult == [category |-> "None"]

\* No PDF has been handed to process_pdf_to_mongodb and no deletion requested: the
\* extraction and normalisation specifications leave the pipeline in this state.
\* extract_account_info has not been called.
AccountIdle ==
    /\ pdf = <<>>
    /\ account_info = <<>>
    /\ account_pc = "idle"

\* No batch is run and no upload request is being handled.
IoIdle ==
    /\ batch = <<>>
    /\ upload_folder = <<>>
    /\ upload_requests = <<>>

PipelineIdle ==
    /\ AccountIdle
    /\ IoIdle
    /\ documents = <<>>
    /\ phase = <<>>
    /\ completed = <<>>
    /\ normalized_transactions = <<>>
    /\ auth_failed = <<>>
    /\ statements_col = <<>>
    /\ transactions_col = <<>>
    /\ deletion = <<>>

NormalizerIdle ==
    /\ text = <<>>
    /\ suggested_result = NoResult
    /\ debit_amount = 0
    /\ credit_amount = 0
    /\ final_result = NoResult
    /\ openai_enabled = FALSE
    /\ advisory = NoResponse
    /\ PipelineIdle

\* ------------------------------------------------------------------------
\* Amount cells and parse_amount_improved
\* ------------------------------------------------------------------------

DIGITS == {"0", "1", "2", "3", "4", "5", "6", "7", "8", "9"}

DigitVal(c) ==
    CASE c = "0" -> 0 [] c = "1" -> 1 [] c = "2" -> 2 [] c = "3" -> 3 [] c = "4" -> 4
      [] c = "5" -> 5 [] c = "6" -> 6 [] c = "7" -> 7 [] c = "8" -> 8 [] c = "9" -> 9

RECURSIVE DigitsValue(_)
DigitsValue(ds) ==
    IF ds = <<>> THEN 0
    ELSE DigitsValue(SubSeq(ds, 1, Len(ds) - 1)) * 10 + DigitVal(ds[Len(ds)])

\* The last index of the run of digits of s that starts at index i (i - 1 if none).
RunEnd(s, i) ==
    CHOOSE j \in (i - 1)..Len(s) :
        /\ \A k \in i..j : s[k] \in DIGITS
        /\ (j = Len(s) \/ s[j + 1] \notin DIGITS)

\* float(match.group(1)) for the first match of (\d+\.?\d*) in cleaned, in paise.
\* The cells of the model carry at most two decimals.
FirstNumber(cleaned) ==
    IF \A i \in 1..Len(cleaned) : cleaned[i] \notin DIGITS THEN 0
    ELSE LET i  == CHOOSE k \in 1..Len(cleaned) :
                       /\ cleaned[k] \in DIGITS
                       /\ \A m \in 1..(k - 1) : cleaned[m] \notin DIGITS
             j  == RunEnd(cleaned, i)
             dot == j < Len(cleaned) /\ cleaned[j + 1] = "."
             e  == IF dot THEN RunEnd(cleaned, j + 2) ELSE j
             fr == IF dot THEN SubSeq(cleaned, j + 2, e) ELSE <<>>
             f2 == IF Len(fr) = 0 THEN 0
                   ELSE IF Len(fr) = 1 THEN DigitVal(fr[1]) * 10
                   ELSE DigitVal(fr[1]) * 10 + DigitVal(fr[2])
         IN  DigitsValue(SubSeq(cleaned, i, j)) * 100 + f2

\* The characters of the cells and amount strings of the model.
Chars(str) ==
    CASE str = "" -> <<>>
      [] str = "0.00" -> <<"0",".","0","0">>
      [] str = "10.00" -> <<"1","0",".","0","0">>
      [] str = "25.50" -> <<"2","5",".","5","0">>
      [] str = "50.00" -> <<"5","0",".","0","0">>
      [] str = "100.00" -> <<"1","0","0",".","0","0">>
      [] str = "200.00" -> <<"2","0","0",".","0","0">>
      [] str = "300.00" -> <<"3","0","0",".","0","0">>
      [] str = "500.00" -> <<"5","0","0",".","0","0">>
      [] str = "600.00" -> <<"6","0","0",".","0","0">>
      [] str = "650.00" -> <<"6","5","0",".","0","0">>
      [] str = "700.00" -> <<"7","0","0",".","0","0">>
      [] str = "900.00" -> <<"9","0","0",".","0","0">>
      [] str = "1,200.00" -> <<"1",",","2","0","0",".","0","0">>
      [] str = "2,000.00" -> <<"2",",","0","0","0",".","0","0">>
      [] str = "9,000.00" -> <<"9",",","0","0","0",".","0","0">>
      [] str = "453699.00" -> <<"4","5","3","6","9","9",".","0","0">>
      [] str = "12345678" -> <<"1","2","3","4","5","6","7","8">>
      [] str = "7654321" -> <<"7","6","5","4","3","2","1">>
      [] str = "NA" -> <<"N","A">>
      [] str = "01/02/2024" -> <<"0","1","/","0","2","/","2","0","2","4">>
      [] str = "POS SHOP" -> <<"P","O","S"," ","S","H","O","P">>
      [] str = "NEFT RENT 2000" ->
            <<"N","E","F","T"," ","R","E","N","T"," ","2","0","0","0">>
      [] str = "MEDR/SHOP/733596/" ->
            <<"M","E","D","R","/","S","H","O","P","/","7","3","3","5","9","6","/">>

\* parse_amount_improved on the characters of a string: "Dr" and "Cr" are the
\* two-letter text indicators, "$" a currency symbol.
ParseChars(amount_str) ==
    IF \A i \in 1..Len(amount_str) : amount_str[i] = " " THEN 0
    ELSE LET c1  == SelectSeq(amount_str, LAMBDA c : c \notin {",", " "})
             c2  == SelectSeq(c1, LAMBDA c : c # "$")
             neg == Len(c2) > 0 /\ c2[1] \in {"-", "("}
             c3  == IF neg THEN SelectSeq(c2, LAMBDA c : c \notin {"-", "(", ")"}) ELSE c2
             c4  == SelectSeq(c3, LAMBDA c : c \notin {"Dr", "Cr"})
             v   == FirstNumber(c4)
         IN  IF neg THEN 0 - v ELSE v

parse_amount_improved(amount_str) == ParseChars(Chars(amount_str))

\* ------------------------------------------------------------------------
\* Central Bank of India: the line machine
\* ------------------------------------------------------------------------

WAIT_FOR_TRANSACTION == "WAIT_FOR_TRANSACTION"
READ_TRANSACTION_LINES == "READ_TRANSACTION_LINES"

NoTxn == [none |-> TRUE]

\* The lines of a CBI statement the model reads.
AnchorLines ==
    { "01/02/24 01/02/24 TO TRF. 100.00 900.00",
      "02/02/24 02/02/24 TO TRF. 453699.00 300.00 600.00",
      "03/02/24 03/02/24 BY TRF. 50.00 650.00",
      "04/02/24 04/02/24 TO TRF." }

OtherLines ==
    { "UPI RRN 453699188536 .",
      "TRF TO AJIO",
      "TRF FROM RAVI KUMAR",
      "NEFT SALARY CREDIT JAN",
      "UPI REFUND SWIGGY",
      "PAGE 2 TRF TO DMART" }

CBLines == AnchorLines \cup OtherLines

\* value_date_pattern.match(line): ^\d{2}/\d{2}/\d{2}\s+\d{2}/\d{2}/\d{2}
value_date_match(line) == line \in AnchorLines

\* any(skip in line_upper ...) over the header/footer words
HasSkipWord(line) == line \in {"PAGE 2 TRF TO DMART"}

\* re.search(r'(\d{2}/\d{2}/\d{2})', line).group(1)
DateOf(line) ==
    CASE line = "01/02/24 01/02/24 TO TRF. 100.00 900.00" -> "01/02/24"
      [] line = "02/02/24 02/02/24 TO TRF. 453699.00 300.00 600.00" -> "02/02/24"
      [] line = "03/02/24 03/02/24 BY TRF. 50.00 650.00" -> "03/02/24"
      [] line = "04/02/24 04/02/24 TO TRF." -> "04/02/24"
      [] OTHER -> "None"

\* re.findall(r'[\d,]+\.\d{2}', line)
AmountsOf(line) ==
    CASE line = "01/02/24 01/02/24 TO TRF. 100.00 900.00" ->
            << "100.00", "900.00" >>
      [] line = "02/02/24 02/02/24 TO TRF. 453699.00 300.00 600.00" ->
            << "453699.00", "300.00",
               "600.00" >>
      [] line = "03/02/24 03/02/24 BY TRF. 50.00 650.00" ->
            << "50.00", "650.00" >>
      [] OTHER -> <<>>

\* "BY TRF" in line_upper or "SALARY" in line_upper
IsCreditLine(line) ==
    line \in {"03/02/24 03/02/24 BY TRF. 50.00 650.00", "NEFT SALARY CREDIT JAN"}

\* The four description patterns, in the order the code tries them:
\* \bTRF\s+TO\b, \bTRF\s+FROM\b, \bSALARY\s+CREDIT\b, \bREFUND\b.
DescriptionOf(line) ==
    CASE line = "TRF TO AJIO" -> "TRF TO AJIO"
      [] line = "PAGE 2 TRF TO DMART" -> "TRF TO DMART"
      [] line = "TRF FROM RAVI KUMAR" -> "TRF FROM RAVI KUMAR"
      [] line = "NEFT SALARY CREDIT JAN" -> "SALARY CREDIT"
      [] line = "UPI REFUND SWIGGY" -> "REFUND SWIGGY"
      [] OTHER -> ""

contains_valid_desc(line) == DescriptionOf(line) # ""

\* any(ignore in line_upper ...) over "TO TRF.", "BY TRF.", "UPI RRN", ...
HasIgnoreWord(line) ==
    line \in AnchorLines \cup {"UPI RRN 453699188536 ."}

\* The transaction dictionary a value-date line opens, given the amount and the
\* balance read from the line.
AnchorRecord(line, isCredit, amount, balance) ==
    [ date             |-> DateOf(line),
      description      |-> "",
      reference_number |-> "",
      debit            |-> IF isCredit THEN 0 ELSE amount,
      credit           |-> IF isCredit THEN amount ELSE 0,
      balance          |-> balance,
      transaction_type |-> IF isCredit THEN "CREDIT" ELSE "DEBIT",
      amount           |-> amount ]

\* The transaction a value-date line opens: with three amounts or more the amount
\* is the one before the last, with two it is the first, with fewer all stay 0.
NewTransaction(line) ==
    IF Len(AmountsOf(line)) >= 3
    THEN AnchorRecord(line, IsCreditLine(line),
                      parse_amount_improved(AmountsOf(line)[Len(AmountsOf(line)) - 1]),
                      parse_amount_improved(AmountsOf(line)[Len(AmountsOf(line))]))
    ELSE IF Len(AmountsOf(line)) = 2
    THEN AnchorRecord(line, IsCreditLine(line),
                      parse_amount_improved(AmountsOf(line)[1]),
                      parse_amount_improved(AmountsOf(line)[2]))
    ELSE AnchorRecord(line, FALSE, 0, 0)

\* A description check that lets every transaction through.
AnyDescription(txn) == FALSE

\* "if not current_transaction.get('description'): raise ValueError"
MissingDescription(txn) == txn.description = ""

\* A finalisation that leaves the open transaction out of the list.
FinalizeDropped(txns, txn) == txns

\* "if current_transaction is not None: ... transactions.append(current_transaction)"
Finalize(txns, txn) == IF txn # NoTxn THEN Append(txns, txn) ELSE txns

\* The check for consecutive duplicates that ends the extraction: a description
\* repeated more than ConsecutiveLimit times in a row.
ConsecutiveLimit == 3

RepeatsConsecutively(txns) ==
    \E i \in 1..Len(txns) :
        /\ i + ConsecutiveLimit <= Len(txns)
        /\ \A k \in 1..ConsecutiveLimit : txns[i + k].description = txns[i].description

\* The number of value-date lines of a statement the model reads.
MaxAnchors == 3

\* The body of the loop "for line in all_lines", with the history of the lines read.
CBPass(line) ==
    /\ status = "running"
    /\ anchors' = IF value_date_match(line) THEN Append(anchors, line) ELSE anchors
    /\ described' = IF value_date_match(line) THEN FALSE
                    ELSE described \/ (anchors # <<>> /\ contains_valid_desc(line))
    /\ undescribed' = (undescribed \/
                         (value_date_match(line) /\ anchors # <<>> /\ ~described))
    /\ IF ~value_date_match(line) /\ HasSkipWord(line)
       THEN UNCHANGED <<state, current_transaction, transactions, status>>
       ELSE IF value_date_match(line)
       THEN IF current_transaction # NoTxn /\ MissingDescription(current_transaction)
            THEN /\ status' = "raised"
                 /\ UNCHANGED <<state, current_transaction, transactions>>
            ELSE /\ transactions' = Finalize(transactions, current_transaction)
                 /\ current_transaction' = NewTransaction(line)
                 /\ state' = READ_TRANSACTION_LINES
                 /\ UNCHANGED status
       ELSE IF state = WAIT_FOR_TRANSACTION
       THEN UNCHANGED <<state, current_transaction, transactions, status>>
       ELSE IF ~contains_valid_desc(line) /\ HasIgnoreWord(line)
       THEN UNCHANGED <<state, current_transaction, transactions, status>>
       ELSE /\ current_transaction' =
                  IF current_transaction # NoTxn /\ current_transaction.description = ""
                  THEN [current_transaction EXCEPT !.description = DescriptionOf(line)]
                  ELSE current_transaction
            /\ UNCHANGED <<state, transactions, status>>

\* One pass of the loop "for line in all_lines", for any line.
CBLine(line) ==
    /\ value_date_match(line) => Len(anchors) < MaxAnchors
    /\ CBPass(line)
    /\ UNCHANGED <<bank, tableVars, dbVars, normVars, runVars>>

\* The end of the input: the last transaction is closed, the list validated and returned.
CBEnd ==
    /\ status = "running"
    /\ undescribed' = (undescribed \/ (anchors # <<>> /\ ~described))
    /\ UNCHANGED <<state, anchors, described, bank, tableVars, dbVars, normVars, runVars>>
    /\ IF current_transaction # NoTxn /\ MissingDescription(current_transaction)
       THEN /\ status' = "raised"
            /\ UNCHANGED <<current_transaction, transactions>>
       ELSE /\ transactions' = Finalize(transactions, current_transaction)
            /\ current_transaction' = NoTxn
            /\ status' = IF RepeatsConsecutively(transactions')
                         THEN "raised" ELSE "returned"

\* ------------------------------------------------------------------------
\* process_pdf_to_mongodb: what follows the extraction
\* ------------------------------------------------------------------------

\* db/schema.py normalize_direction
normalize_direction(debit, credit, transaction_type) ==
    IF debit > 0 THEN "debit"
    ELSE IF credit > 0 THEN "credit"
    ELSE IF transaction_type = "CREDIT" THEN "credit"
    ELSE "debit"

\* db/schema.py create_transaction_doc: the fields taken from the raw transaction.
create_transaction_doc(original) ==
    [ date        |-> original.date,
      amount      |-> IF original.amount # 0 THEN original.amount
                      ELSE IF original.debit > 0 THEN original.debit ELSE original.credit,
      direction   |-> normalize_direction(original.debit, original.credit,
                                          original.transaction_type),
      balance     |-> original.balance,
      description |-> original.description ]

\* "if not transactions: raise ValueError('No transactions found in PDF')"
ProcessNoTransactions ==
    /\ status = "returned"
    /\ transactions = <<>>
    /\ status' = "raised"
    /\ UNCHANGED <<cbiVars, transactions, bank, tableVars, dbVars, normVars, runVars>>

\* Steps 5 to 7: the statement document is inserted, then the transaction documents.
Persist ==
    /\ status = "returned"
    /\ transactions # <<>>
    /\ statements' = statements + 1
    /\ stored' = stored \o [i \in 1..Len(transactions) |->
                               create_transaction_doc(transactions[i])]
    /\ status' = "stored"
    /\ UNCHANGED <<cbiVars, transactions, bank, tableVars, normVars, runVars>>

InitCBI ==
    /\ state = WAIT_FOR_TRANSACTION
    /\ current_transaction = NoTxn
    /\ transactions = <<>>
    /\ status = "running"
    /\ anchors = <<>>
    /\ described = FALSE
    /\ undescribed = FALSE
    /\ bank = "Central Bank of India"
    /\ consumed = 0
    /\ sources = <<>>
    /\ genuine = <<>>
    /\ statements = 0
    /\ stored = <<>>
    /\ NormalizerIdle

NextCBI ==
    \/ \E line \in CBLines : CBLine(line)
    \/ CBEnd
    \/ ProcessNoTransactions
    \/ Persist

SpecCBI == InitCBI /\ [][NextCBI]_vars

\* The banks of the model whose statements extract_transactions_universal reads
\* page by page, from tables or from text.
TableBanks == {"HDFC Bank", "State Bank of India", "Bank of India"}

\* ------------------------------------------------------------------------
\* extract_from_text_fallback: a page with no table, read line by line
\* ------------------------------------------------------------------------

\* The lines of a page of text the model reads.
TextLines ==
    { "05/02/2024 SHOP 100.00 50.00 900.00",
      "06/02/2024 ATM WDL 200.00 700.00",
      "07/02/2024 CHARGES 25.50",
      "08/02/2024 NEFT 0.00 500.00 1,200.00",
      "09/02/2024 OPENING 0.00 700.00",
      "10/02/2024 TO TRF - CR 10.00",
      "11/02/2024 NOTE",
      "CLOSING BALANCE 700.00" }

\* re.search(r'(\d{1,2}[-/]\d{1,2}[-/]\d{2,4})', line): the date, "" when none.
TextDateOf(line) ==
    CASE line = "05/02/2024 SHOP 100.00 50.00 900.00" -> "05/02/2024"
      [] line = "06/02/2024 ATM WDL 200.00 700.00" -> "06/02/2024"
      [] line = "07/02/2024 CHARGES 25.50" -> "07/02/2024"
      [] line = "08/02/2024 NEFT 0.00 500.00 1,200.00" -> "08/02/2024"
      [] line = "09/02/2024 OPENING 0.00 700.00" -> "09/02/2024"
      [] line = "10/02/2024 TO TRF - CR 10.00" -> "10/02/2024"
      [] line = "11/02/2024 NOTE" -> "11/02/2024"
      [] OTHER -> ""

\* re.findall(r'[\d,]+\.\d{2}', line)
TextAmountsOf(line) ==
    CASE line = "05/02/2024 SHOP 100.00 50.00 900.00" ->
            << "100.00", "50.00",
               "900.00" >>
      [] line = "06/02/2024 ATM WDL 200.00 700.00" ->
            << "200.00", "700.00" >>
      [] line = "07/02/2024 CHARGES 25.50" -> << "25.50" >>
      [] line = "08/02/2024 NEFT 0.00 500.00 1,200.00" ->
            << "0.00", "500.00",
               "1,200.00" >>
      [] line = "09/02/2024 OPENING 0.00 700.00" ->
            << "0.00", "700.00" >>
      [] line = "10/02/2024 TO TRF - CR 10.00" -> << "10.00" >>
      [] line = "CLOSING BALANCE 700.00" -> << "700.00" >>
      [] OTHER -> <<>>

\* The line with its date and amounts removed and its blanks collapsed.
TextDescriptionOf(line) ==
    CASE line = "05/02/2024 SHOP 100.00 50.00 900.00" -> "SHOP"
      [] line = "06/02/2024 ATM WDL 200.00 700.00" -> "ATM WDL"
      [] line = "07/02/2024 CHARGES 25.50" -> "CHARGES"
      [] line = "08/02/2024 NEFT 0.00 500.00 1,200.00" -> "NEFT"
      [] line = "09/02/2024 OPENING 0.00 700.00" -> "OPENING"
      [] line = "10/02/2024 TO TRF - CR 10.00" -> "TO TRF - CR"
      [] line = "11/02/2024 NOTE" -> "NOTE"
      [] OTHER -> "Transaction"

\* normalize_description: \bTO\s*TRF\.?\s*-\s*CR\b is replaced by a fixed text.
normalize_description(desc) ==
    IF desc = "TO TRF - CR" THEN "TO TRF UPI RRN 453699188536 TRF TO AJIO" ELSE desc

\* The transaction dictionary of a line.
TextRecord(line, srNo, debit, credit, balance) ==
    [ sr_no            |-> srNo,
      date             |-> TextDateOf(line),
      description      |-> normalize_description(TextDescriptionOf(line)),
      reference_number |-> "",
      debit            |-> debit,
      credit           |-> credit,
      balance          |-> balance,
      transaction_type |-> IF debit > 0 THEN "DEBIT" ELSE "CREDIT",
      amount           |-> IF debit > 0 THEN debit ELSE credit ]

\* debit, credit = (amount, 0) or (0, abs(amount))
AmountAsDebit(amount) == IF amount > 0 THEN amount ELSE 0
AmountAsCredit(amount) == IF amount > 0 THEN 0 ELSE 0 - amount

\* The transaction extract_from_text_fallback builds from a line with a date and at
\* least one amount; srNo is len(transactions) + 1.
TextTransaction(line, srNo) ==
    IF Len(TextAmountsOf(line)) >= 3
    THEN TextRecord(line, srNo, parse_amount_improved(TextAmountsOf(line)[1]),
                    parse_amount_improved(TextAmountsOf(line)[2]),
                    parse_amount_improved(TextAmountsOf(line)[3]))
    ELSE TextRecord(line, srNo,
                    AmountAsDebit(parse_amount_improved(TextAmountsOf(line)[1])),
                    AmountAsCredit(parse_amount_improved(TextAmountsOf(line)[1])),
                    IF Len(TextAmountsOf(line)) = 2
                    THEN parse_amount_improved(TextAmountsOf(line)[2]) ELSE 0)

\* What a line adds to the list.
TextResult(line, txns) ==
    IF TextDateOf(line) = "" \/ Len(TextAmountsOf(line)) < 1 THEN <<>>
    ELSE IF TextTransaction(line, Len(txns) + 1).debit > 0
            \/ TextTransaction(line, Len(txns) + 1).credit > 0
    THEN <<TextTransaction(line, Len(txns) + 1)>>
    ELSE <<>>

\* The number of lines of a page of text the model reads.
MaxTextLines == 3

\* One pass of the loop "for line in lines".
TextLine(line) ==
    /\ status = "running"
    /\ consumed < MaxTextLines
    /\ consumed' = consumed + 1
    /\ transactions' = transactions \o TextResult(line, transactions)
    /\ UNCHANGED <<cbiVars, status, bank, sources, genuine, dbVars, normVars, runVars>>

\* "return transactions"
TextEnd ==
    /\ status = "running"
    /\ status' = "returned"
    /\ UNCHANGED <<cbiVars, transactions, bank, tableVars, dbVars, normVars, runVars>>

InitText ==
    /\ state = WAIT_FOR_TRANSACTION
    /\ current_transaction = NoTxn
    /\ transactions = <<>>
    /\ status = "running"
    /\ anchors = <<>>
    /\ described = FALSE
    /\ undescribed = FALSE
    /\ bank \in TableBanks
    /\ consumed = 0
    /\ sources = <<>>
    /\ genuine = <<>>
    /\ statements = 0
    /\ stored = <<>>
    /\ NormalizerIdle

NextText ==
    \/ \E line \in TextLines : TextLine(line)
    \/ TextEnd
    \/ ProcessNoTransactions
    \/ Persist

SpecText == InitText /\ [][NextText]_vars

\* ------------------------------------------------------------------------
\* extract_from_table_universal_improved: a table, read row by row
\* ------------------------------------------------------------------------

\* The header row of the tables of the model.
Header == <<"Date", "Narration", "Chq/Ref No", "Debit", "Credit", "Balance">>

\* The keywords of the column lists that a header cell contains, in upper case.
HeaderKeywords(cell) ==
    CASE cell = "Date" -> {"DATE"}
      [] cell = "Narration" -> {"NARRATION"}
      [] cell = "Chq/Ref No" -> {"CHQ", "REF NO"}
      [] cell = "Debit" -> {"DEBIT"}
      [] cell = "Credit" -> {"CREDIT", "CR"}
      [] cell = "Balance" -> {"BALANCE"}

\* find_column_index: the first column whose header cell contains a keyword.
\* Columns count from 1 here; 0 is None.
find_column_index(header, keywords) ==
    IF \E idx \in 1..Len(header) : HeaderKeywords(header[idx]) \cap keywords # {}
    THEN CHOOSE idx \in 1..Len(header) :
            /\ HeaderKeywords(header[idx]) \cap keywords # {}
            /\ \A k \in 1..(idx - 1) : HeaderKeywords(header[k]) \cap keywords = {}
    ELSE 0

date_col ==
    find_column_index(Header, {"DATE", "TXN DATE", "TRAN DATE", "VALUE DATE",
                               "TRANSACTION DATE"})
desc_col ==
    find_column_index(Header, {"PARTICULARS", "DESCRIPTION", "NARRATION", "DETAILS",
                               "TRANSACTION", "REMARKS"})
debit_col ==
    find_column_index(Header, {"DEBIT", "WITHDRAWAL", "DR", "PAID OUT", "WITHDRAWALS"})
credit_col ==
    find_column_index(Header, {"CREDIT", "DEPOSIT", "CR", "PAID IN", "DEPOSITS"})
balance_col ==
    find_column_index(Header, {"BALANCE", "CLOSING", "AVAILABLE", "CLOSING BALANCE"})
ref_col ==
    find_column_index(Header, {"CHEQUE", "CHQ", "REFERENCE", "REF NO", "CHQ NO"})

\* The rows of the model: one cell for each column of Header.  No description is
\* one of the compressed forms ("NEFT - Cr") the code completes from other cells.
TableRows ==
    { <<d, n, r, x, y, b>> :
        d \in {"01/02/2024", "NA", ""},
        n \in {"POS SHOP", "NEFT RENT 2000", "MEDR/SHOP/733596/"},
        r \in {"", "7654321"},
        x \in {"", "500.00", "12345678"},
        y \in {"", "2,000.00"},
        b \in {"", "9,000.00"} }

safe_extract_cell(row, col_idx) ==
    IF col_idx = 0 \/ col_idx > Len(row) THEN "" ELSE row[col_idx]

\* is_valid_date_improved: the cells one of the date patterns is found in.
is_valid_date_improved(date_str) == date_str \in {"01/02/2024"}

\* '.' in the cell
HasDecimalPoint(str) == \E i \in 1..Len(Chars(str)) : Chars(str)[i] = "."

\* The cell without commas and blanks: re.match(r'^\d+$', cleaned) and len(cleaned).
Cleaned(str) == SelectSeq(Chars(str), LAMBDA c : c \notin {",", " "})

AllDigits(str) ==
    Cleaned(str) # <<>> /\ \A i \in 1..Len(Cleaned(str)) : Cleaned(str)[i] \in DIGITS

\* amt == int(amt)
IsWhole(amt) == amt % 100 = 0

\* Rupee limits of the validations, in paise.
OneLakh == 10000000
FiftyLakh == 500000000
TenThousand == 1000000
OneThousand == 100000
RefDigits == 6

\* The row's date, "" when the row is skipped: a row with no valid date is kept
\* only if it carries an amount, and takes a date found in another cell or the date
\* of the previous transaction.
RowDate(row, txns) ==
    LET date == safe_extract_cell(row, date_col)
        td   == parse_amount_improved(safe_extract_cell(row, debit_col))
        tc   == parse_amount_improved(safe_extract_cell(row, credit_col))
        others == {c \in 1..Len(row) : c # date_col /\ is_valid_date_improved(row[c])}
    IN  IF date = "" THEN ""
        ELSE IF date \in {"DATE", "TXN DATE", "TRAN DATE", "VALUE DATE",
                          "OPENING BALANCE", "CLOSING BALANCE", "BALANCE"} THEN ""
        ELSE IF is_valid_date_improved(date) THEN date
        ELSE IF td = 0 /\ tc = 0 THEN ""
        ELSE IF td > 0 \/ tc > 0
             THEN IF others # {}
                  THEN row[CHOOSE c \in others : \A k \in others : c <= k]
                  ELSE IF txns # <<>> THEN txns[Len(txns)].date ELSE ""
        ELSE date

\* SBI: a debit or credit that looks like a reference number.
SBILooksLikeRef(amt, str, ref_str) ==
    \/ IsWhole(amt) /\ amt > OneLakh
    \/ AllDigits(str) /\ ~HasDecimalPoint(str) /\ Len(Cleaned(str)) >= RefDigits
    \/ amt > FiftyLakh
    \/ IsWhole(amt) /\ amt > TenThousand /\ ref_str = ""

\* SBI-specific validation: such a value is moved to the reference and zeroed; a
\* missing balance is taken from the last cell that looks like one.
SBIValidation(b, row, a) ==
    LET badD == a.debit > 0 /\ SBILooksLikeRef(a.debit, a.debit_str, a.ref)
        ref1 == IF badD /\ a.ref = "" THEN a.debit_str ELSE a.ref
        badC == a.credit > 0 /\ SBILooksLikeRef(a.credit, a.credit_str, ref1)
        cand == {c \in 1..Len(row) :
                    /\ c \notin {date_col, desc_col}
                    /\ parse_amount_improved(row[c]) > OneThousand
                    /\ (HasDecimalPoint(row[c]) \/ parse_amount_improved(row[c]) > TenThousand)}
    IN  IF b # "State Bank of India" THEN a
        ELSE [ debit      |-> IF badD THEN 0 ELSE a.debit,
               debit_str  |-> IF badD THEN "" ELSE a.debit_str,
               credit     |-> IF badC THEN 0 ELSE a.credit,
               credit_str |-> IF badC THEN "" ELSE a.credit_str,
               ref        |-> IF badC /\ ref1 = "" THEN a.credit_str ELSE ref1,
               balance    |-> IF a.balance = 0 /\ cand # {}
                              THEN parse_amount_improved(
                                       row[CHOOSE c \in cand : \A k \in cand : k <= c])
                              ELSE a.balance ]

\* "If no amounts in primary columns, search all columns for amounts": the first
\* cell outside the date and description columns that parses to an amount.
SearchAllColumns(b, row, a) ==
    LET cand == {c \in 1..Len(row) :
                    c \notin {date_col, desc_col} /\ parse_amount_improved(row[c]) > 0}
        col  == CHOOSE c \in cand : \A k \in cand : c <= k
        amt  == parse_amount_improved(row[col])
    IN  IF b = "Union Bank of India" \/ a.debit # 0 \/ a.credit # 0 \/ cand = {} THEN a
        ELSE IF debit_col # 0 /\ col = debit_col THEN [a EXCEPT !.debit = amt]
        ELSE IF credit_col # 0 /\ col = credit_col THEN [a EXCEPT !.credit = amt]
        ELSE IF col < desc_col THEN [a EXCEPT !.debit = amt]
        ELSE [a EXCEPT !.credit = amt]

\* re.search(r'\bMEDR\b', description_upper)
HasMEDR(description) == description \in {"MEDR/SHOP/733596/"}

\* re.search(r'MEDR/[^/]+/(\d+)', description_upper).group(1)
MedrRef(description) ==
    CASE description = "MEDR/SHOP/733596/" -> "733596"
      [] OTHER -> ""

\* float(num_str) for each re.findall(r'\d+\.?\d*', description), in paise
DescNumbers(description) ==
    CASE description = "NEFT RENT 2000" -> {200000}
      [] description = "MEDR/SHOP/733596/" -> {73359600}
      [] OTHER -> {}

\* Bank of India: a MEDR row is always a debit; its trailing number is a reference.
MEDRHandling(b, description, a) ==
    IF b = "Bank of India" /\ HasMEDR(description)
    THEN [a EXCEPT !.credit = 0, !.credit_str = "",
                   !.ref = IF a.ref = "" /\ MedrRef(description) # ""
                           THEN MedrRef(description) ELSE a.ref]
    ELSE a

\* Amount source validation: a whole credit above a thousand rupees that equals a
\* number of the description is taken for a reference and zeroed.
AmountSourceValidation(b, description, a) ==
    IF /\ b # "Union Bank of India"
       /\ \E num \in DescNumbers(description) : num = a.credit /\ num > 0
       /\ ~HasMEDR(description)
       /\ IsWhole(a.credit) /\ a.credit > OneThousand
    THEN [a EXCEPT !.credit = 0, !.credit_str = ""]
    ELSE a

\* SBI post-extraction check: a whole amount above one lakh is zeroed.
SBIPostCheck(b, a) ==
    IF b # "State Bank of India" THEN a
    ELSE [a EXCEPT !.debit  = IF a.debit > 0 /\ IsWhole(a.debit) /\ a.debit > OneLakh
                              THEN 0 ELSE a.debit,
                   !.credit = IF a.credit > 0 /\ IsWhole(a.credit) /\ a.credit > OneLakh
                              THEN 0 ELSE a.credit]

\* Structural validation: debit and credit cannot both be positive.
StructuralValidation(a) ==
    IF a.debit > 0 /\ a.credit > 0
    THEN IF IsWhole(a.debit) /\ a.debit > OneLakh THEN [a EXCEPT !.debit = 0]
         ELSE IF IsWhole(a.credit) /\ a.credit > OneLakh THEN [a EXCEPT !.credit = 0]
         ELSE IF a.debit > a.credit THEN [a EXCEPT !.credit = 0]
         ELSE [a EXCEPT !.debit = 0]
    ELSE a

\* The cells of a row as the code first reads them.
RowCells(row) ==
    [ debit      |-> parse_amount_improved(safe_extract_cell(row, debit_col)),
      debit_str  |-> safe_extract_cell(row, debit_col),
      credit     |-> parse_amount_improved(safe_extract_cell(row, credit_col)),
      credit_str |-> safe_extract_cell(row, credit_col),
      ref        |-> safe_extract_cell(row, ref_col),
      balance    |-> parse_amount_improved(safe_extract_cell(row, balance_col)) ]

\* The amounts of a row after every validation the bank b applies, in the order
\* of the code.
RowAmounts(b, row, description) ==
    StructuralValidation(
        SBIPostCheck(b,
            AmountSourceValidation(b, description,
                MEDRHandling(b, description,
                    SearchAllColumns(b, row,
                        SBIValidation(b, row, RowCells(row)))))))

\* Debit/credit authority rule: the row becomes a transaction only when exactly
\* one of debit and credit is positive.
HasAuthority(a) ==
    \/ a.debit > 0 /\ a.credit = 0
    \/ a.credit > 0 /\ a.debit = 0

\* The transaction dictionary of a row.
RowRecord(srNo, date, description, a) ==
    [ sr_no            |-> srNo,
      date             |-> date,
      description      |-> IF description # "" THEN description ELSE "Transaction",
      reference_number |-> a.ref,
      debit            |-> a.debit,
      credit           |-> a.credit,
      balance          |-> a.balance,
      transaction_type |-> IF a.debit > 0 /\ a.credit = 0 THEN "DEBIT" ELSE "CREDIT",
      amount           |-> IF a.debit > 0 /\ a.credit = 0 THEN a.debit ELSE a.credit ]

TableTransaction(b, row, date, srNo) ==
    RowRecord(srNo, date, normalize_description(safe_extract_cell(row, desc_col)),
              RowAmounts(b, row, normalize_description(safe_extract_cell(row, desc_col))))

\* What a row adds to the list: its transaction, or nothing when the row is skipped.
Appended(date, txn) ==
    IF date # "" /\ HasAuthority(txn) /\ (txn.debit > 0 \/ txn.credit > 0)
    THEN <<txn>> ELSE <<>>

RowResult(b, row, txns) ==
    Appended(RowDate(row, txns),
             TableTransaction(b, row, RowDate(row, txns), Len(txns) + 1))

\* The hard validation that ends the table extractor for Central Bank of India: one
\* description with two different debit amounts.
DuplicateDescriptions(txns) ==
    \E i, j \in 1..Len(txns) :
        /\ txns[i].debit > 0 /\ txns[j].debit > 0
        /\ txns[i].description # ""
        /\ txns[i].description = txns[j].description
        /\ txns[i].debit # txns[j].debit

\* A row with a date and a genuine monetary amount: one of the debit and credit
\* cells is empty and the other a positive amount written with its decimals.
IsMonetary(str) == HasDecimalPoint(str) /\ parse_amount_improved(str) > 0

IsGenuineRow(row) ==
    /\ is_valid_date_improved(row[date_col])
    /\ \/ IsMonetary(row[debit_col]) /\ row[credit_col] = ""
       \/ IsMonetary(row[credit_col]) /\ row[debit_col] = ""

\* The number of rows of a table the model reads.
MaxRows == 2

\* One pass of the loop "while i < len(table)".
TableRow(row) ==
    /\ status = "running"
    /\ consumed < MaxRows
    /\ consumed' = consumed + 1
    /\ genuine' = IF IsGenuineRow(row) THEN Append(genuine, row) ELSE genuine
    /\ transactions' = transactions \o RowResult(bank, row, transactions)
    /\ sources' = IF Len(transactions') > Len(transactions)
                  THEN Append(sources, row) ELSE sources
    /\ UNCHANGED <<cbiVars, status, bank, dbVars, normVars, runVars>>

\* The end of the table: "return transactions", after the Central Bank validation.
TableEnd ==
    /\ status = "running"
    /\ status' = IF bank = "Central Bank of India" /\ DuplicateDescriptions(transactions)
                 THEN "raised" ELSE "returned"
    /\ UNCHANGED <<cbiVars, transactions, bank, tableVars, dbVars, normVars, runVars>>

InitTable ==
    /\ state = WAIT_FOR_TRANSACTION
    /\ current_transaction = NoTxn
    /\ transactions = <<>>
    /\ status = "running"
    /\ anchors = <<>>
    /\ described = FALSE
    /\ undescribed = FALSE
    /\ bank \in TableBanks
    /\ consumed = 0
    /\ sources = <<>>
    /\ genuine = <<>>
    /\ statements = 0
    /\ stored = <<>>
    /\ NormalizerIdle

NextTable ==
    \/ \E row \in TableRows : TableRow(row)
    \/ TableEnd
    \/ ProcessNoTransactions
    \/ Persist

SpecTable == InitTable /\ [][NextTable]_vars

\* ------------------------------------------------------------------------
\* hybrid_normalizer.py: apply_global_rules
\*
\* A description is a sequence of upper-case words, which the code sees joined
\* by single spaces.  \bW\b is the test that W is one of the words, \bW1\s+W2\b
\* that W1 and W2 are adjacent words.  The words hold no "/", "-", "'" or
\* digit, so the patterns that need one (CR/, DR/, UPIAR/, UPIAB/, ATW-,
\* ACH D-, POS 12X34, NEFT DR -) match no description of the model.
\* ------------------------------------------------------------------------

Word(t, w) == \E i \in 1..Len(t) : t[i] = w
HasAny(t, ws) == \E i \in 1..Len(t) : t[i] \in ws
Phrase(t, ph) == \E i \in 0..(Len(t) - Len(ph)) : \A j \in 1..Len(ph) : t[i + j] = ph[j]

\* len() of words joined by single spaces.
RECURSIVE CharLen(_)
CharLen(ws) ==
    IF ws = <<>> THEN 0
    ELSE Len(Head(ws)) + (IF Len(ws) > 1 THEN 1 ELSE 0) + CharLen(Tail(ws))

\* str.title() of the words a rule can capture from a description.
title(w) ==
    CASE w = "RAVI" -> "Ravi"     [] w = "SALARY" -> "Salary" [] w = "NEFT" -> "Neft"
      [] w = "UPI" -> "Upi"       [] w = "MEDR" -> "Medr"     [] w = "CREDIT" -> "Credit"
      [] w = "INTEREST" -> "Interest" [] w = "CARD" -> "Card" [] w = "PAYMENT" -> "Payment"
      [] w = "SCHOOL" -> "School" [] w = "ANNUAL" -> "Annual" [] w = "FEE" -> "Fee"
      [] w = "EMI" -> "Emi"       [] w = "ATM" -> "Atm"       [] w = "CASH" -> "Cash"
      [] w = "WDL" -> "Wdl"       [] w = "SWIGGY" -> "Swiggy" [] w = "DR" -> "Dr"
      [] w = "SHOPKEEPER" -> "Shopkeeper" [] w = "KOTAK" -> "Kotak"
      [] OTHER -> w

RECURSIVE TitleWords(_)
TitleWords(ws) ==
    IF Len(ws) = 1 THEN title(ws[1]) ELSE title(Head(ws)) \o " " \o TitleWords(Tail(ws))

\* KNOWN_BRANDS, in the order of the dictionary: the key as words, the brand name.
KNOWN_BRANDS ==
    << [key |-> <<"SWIGGY">>, name |-> "Swiggy"], [key |-> <<"ZOMATO">>, name |-> "Zomato"],
       [key |-> <<"MCDONALD">>, name |-> "McDonalds"], [key |-> <<"MCDONALDS">>, name |-> "McDonalds"],
       [key |-> <<"KFC">>, name |-> "KFC"], [key |-> <<"BURGER", "KING">>, name |-> "Burger King"],
       [key |-> <<"BURGERKING">>, name |-> "Burger King"], [key |-> <<"INSTAMART">>, name |-> "Instamart"],
       [key |-> <<"BARBEQUE", "NATION">>, name |-> "Barbeque Nation"],
       [key |-> <<"BARBEQUE">>, name |-> "Barbeque Nation"],
       [key |-> <<"MONCHUNIES">>, name |-> "Monchunies"], [key |-> <<"DOMINOS">>, name |-> "Dominos Pizza"],
       [key |-> <<"DOMINO">>, name |-> "Dominos Pizza"], [key |-> <<"PIZZA", "HUT">>, name |-> "Pizza Hut"],
       [key |-> <<"PIZZA">>, name |-> "Pizza"], [key |-> <<"SUBWAY">>, name |-> "Subway"],
       [key |-> <<"HALDIRAM">>, name |-> "Haldiram"], [key |-> <<"HALDIRAMS">>, name |-> "Haldiram"],
       [key |-> <<"SPENCERS">>, name |-> "Spencer's"], [key |-> <<"SPENCER'S">>, name |-> "Spencer's"],
       [key |-> <<"SPENCER">>, name |-> "Spencer's"],
       [key |-> <<"SPENCERS", "RETAIL">>, name |-> "Spencer's"], [key |-> <<"DMART">>, name |-> "DMart"],
       [key |-> <<"D'MART">>, name |-> "DMart"], [key |-> <<"BIG", "BAZAAR">>, name |-> "Big Bazaar"],
       [key |-> <<"BIGBAZAAR">>, name |-> "Big Bazaar"],
       [key |-> <<"RELIANCE", "SMART">>, name |-> "Reliance Smart"],
       [key |-> <<"RELIANCE">>, name |-> "Reliance"],
       [key |-> <<"NATURE'S", "BASKET">>, name |-> "Nature's Basket"],
       [key |-> <<"NATURE", "S", "BASKET">>, name |-> "Nature's Basket"],
       [key |-> <<"NATURE", "BASKET">>, name |-> "Nature's Basket"],
       [key |-> <<"BIGBASKET">>, name |-> "BigBasket"], [key |-> <<"BIG", "BASKET">>, name |-> "BigBasket"],
       [key |-> <<"GROFERS">>, name |-> "Grofers"], [key |-> <<"AJIO">>, name |-> "AJIO"],
       [key |-> <<"AMAZON">>, name |-> "Amazon"], [key |-> <<"FLIPKART">>, name |-> "Flipkart"],
       [key |-> <<"MYNTRA">>, name |-> "Myntra"], [key |-> <<"PANTALOONS">>, name |-> "Pantaloons"],
       [key |-> <<"WESTSIDE">>, name |-> "Westside"], [key |-> <<"LIFESTYLE">>, name |-> "Lifestyle"],
       [key |-> <<"SHOPPER">>, name |-> "Shoppers Stop"], [key |-> <<"PVR">>, name |-> "PVR"],
       [key |-> <<"PVR", "CINEMAS">>, name |-> "PVR Cinemas"],
       [key |-> <<"CINEPOLIS">>, name |-> "Cinepolis"], [key |-> <<"INOX">>, name |-> "INOX"],
       [key |-> <<"BOOKMYSHOW">>, name |-> "BookMyShow"], [key |-> <<"CINEMA">>, name |-> "Cinema"],
       [key |-> <<"MOVIE">>, name |-> "Movie"], [key |-> <<"OLA">>, name |-> "Ola"],
       [key |-> <<"UBER">>, name |-> "Uber"], [key |-> <<"RAPIDO">>, name |-> "Rapido"],
       [key |-> <<"IRCTC">>, name |-> "IRCTC"], [key |-> <<"METRO">>, name |-> "Metro"],
       [key |-> <<"REDBUS">>, name |-> "RedBus"], [key |-> <<"RED", "BUS">>, name |-> "RedBus"],
       [key |-> <<"PMPML">>, name |-> "PMPML"], [key |-> <<"PMPL">>, name |-> "PMPML"],
       [key |-> <<"MAKE", "MY", "TRIP">>, name |-> "MakeMyTrip"],
       [key |-> <<"MAKEMYTRIP">>, name |-> "MakeMyTrip"], [key |-> <<"GOIBIBO">>, name |-> "Goibibo"],
       [key |-> <<"GO", "IBIBO">>, name |-> "Goibibo"], [key |-> <<"PRACTO">>, name |-> "Practo"],
       [key |-> <<"GOLD'S", "GYM">>, name |-> "Gold's Gym"],
       [key |-> <<"GOLDS", "GYM">>, name |-> "Gold's Gym"], [key |-> <<"GYM">>, name |-> "Gym"],
       [key |-> <<"FITNESS">>, name |-> "Fitness"], [key |-> <<"CULT", "FIT">>, name |-> "Cult.fit"],
       [key |-> <<"CULTFIT">>, name |-> "Cult.fit"], [key |-> <<"TALWALKARS">>, name |-> "Talwalkars"],
       [key |-> <<"ANYTIME", "FITNESS">>, name |-> "Anytime Fitness"],
       [key |-> <<"HOSPITAL">>, name |-> "Hospital"], [key |-> <<"FORTIS">>, name |-> "Fortis"],
       [key |-> <<"APOLLO">>, name |-> "Apollo"], [key |-> <<"PHARMACY">>, name |-> "Pharmacy"],
       [key |-> <<"MEDICAL">>, name |-> "Medical"], [key |-> <<"MEDPLUS">>, name |-> "MedPlus"],
       [key |-> <<"MED", "PLUS">>, name |-> "MedPlus"],
       [key |-> <<"INDIAN", "OIL">>, name |-> "Indian Oil"], [key |-> <<"IOCL">>, name |-> "Indian Oil"],
       [key |-> <<"HP">>, name |-> "HP"], [key |-> <<"HPCL">>, name |-> "HPCL"],
       [key |-> <<"BPCL">>, name |-> "Bharat Petroleum"],
       [key |-> <<"BHARAT", "PETROLEUM">>, name |-> "Bharat Petroleum"],
       [key |-> <<"SHELL">>, name |-> "Shell"], [key |-> <<"PETROL", "PUMP">>, name |-> "Petrol Pump"],
       [key |-> <<"AIRTEL">>, name |-> "Airtel"], [key |-> <<"JIO">>, name |-> "Jio"],
       [key |-> <<"VODAFONE">>, name |-> "Vodafone"], [key |-> <<"VI">>, name |-> "Vi"],
       [key |-> <<"BSNL">>, name |-> "BSNL"], [key |-> <<"FIBER">>, name |-> "Fiber"],
       [key |-> <<"BROADBAND">>, name |-> "Broadband"], [key |-> <<"DTH">>, name |-> "DTH"],
       [key |-> <<"ELECTRICITY">>, name |-> "Electricity"], [key |-> <<"GAS">>, name |-> "Gas"],
       [key |-> <<"LIC">>, name |-> "LIC"], [key |-> <<"HDFC", "LIFE">>, name |-> "HDFC Life"],
       [key |-> <<"HDFCLIFE">>, name |-> "HDFC Life"] >>

\* KNOWN_EMPLOYERS, in the order of the list: the employer in upper case, and its title().
KNOWN_EMPLOYERS ==
    << [key |-> <<"TCS">>, name |-> "Tcs"],
       [key |-> <<"TATA", "CONSULTANCY">>, name |-> "Tata Consultancy"],
       [key |-> <<"TATA", "CONSULTANCY", "SERVICES">>, name |-> "Tata Consultancy Services"],
       [key |-> <<"INFOSYS">>, name |-> "Infosys"],
       [key |-> <<"INFOSYS", "TECHNOLOGIES">>, name |-> "Infosys Technologies"],
       [key |-> <<"WIPRO">>, name |-> "Wipro"],
       [key |-> <<"WIPRO", "TECHNOLOGIES">>, name |-> "Wipro Technologies"],
       [key |-> <<"HCL">>, name |-> "Hcl"],
       [key |-> <<"HCL", "TECHNOLOGIES">>, name |-> "Hcl Technologies"],
       [key |-> <<"ACCENTURE">>, name |-> "Accenture"], [key |-> <<"COGNIZANT">>, name |-> "Cognizant"],
       [key |-> <<"CTS">>, name |-> "Cts"], [key |-> <<"IBM">>, name |-> "Ibm"],
       [key |-> <<"IBM", "INDIA">>, name |-> "Ibm India"], [key |-> <<"MICROSOFT">>, name |-> "Microsoft"],
       [key |-> <<"MICROSOFT", "INDIA">>, name |-> "Microsoft India"],
       [key |-> <<"GOOGLE">>, name |-> "Google"], [key |-> <<"GOOGLE", "INDIA">>, name |-> "Google India"],
       [key |-> <<"AMAZON">>, name |-> "Amazon"], [key |-> <<"AMAZON", "INDIA">>, name |-> "Amazon India"],
       [key |-> <<"FLIPKART">>, name |-> "Flipkart"], [key |-> <<"PAYTM">>, name |-> "Paytm"],
       [key |-> <<"PAYTM", "PAYMENTS">>, name |-> "Paytm Payments"],
       [key |-> <<"ZOMATO">>, name |-> "Zomato"], [key |-> <<"SWIGGY">>, name |-> "Swiggy"],
       [key |-> <<"OYO">>, name |-> "Oyo"], [key |-> <<"OYO", "ROOMS">>, name |-> "Oyo Rooms"],
       [key |-> <<"OLA">>, name |-> "Ola"], [key |-> <<"OLA", "CABS">>, name |-> "Ola Cabs"],
       [key |-> <<"UBER">>, name |-> "Uber"], [key |-> <<"UBER", "INDIA">>, name |-> "Uber India"],
       [key |-> <<"RELIANCE">>, name |-> "Reliance"],
       [key |-> <<"RELIANCE", "INDUSTRIES">>, name |-> "Reliance Industries"],
       [key |-> <<"TATA">>, name |-> "Tata"], [key |-> <<"TATA", "GROUP">>, name |-> "Tata Group"],
       [key |-> <<"MAHINDRA">>, name |-> "Mahindra"],
       [key |-> <<"MAHINDRA", "&", "MAHINDRA">>, name |-> "Mahindra & Mahindra"],
       [key |-> <<"BAJAJ">>, name |-> "Bajaj"], [key |-> <<"BAJAJ", "AUTO">>, name |-> "Bajaj Auto"],
       [key |-> <<"MARUTI">>, name |-> "Maruti"],
       [key |-> <<"MARUTI", "SUZUKI">>, name |-> "Maruti Suzuki"], [key |-> <<"HDFC">>, name |-> "Hdfc"],
       [key |-> <<"HDFC", "BANK">>, name |-> "Hdfc Bank"], [key |-> <<"ICICI">>, name |-> "Icici"],
       [key |-> <<"ICICI", "BANK">>, name |-> "Icici Bank"], [key |-> <<"AXIS">>, name |-> "Axis"],
       [key |-> <<"AXIS", "BANK">>, name |-> "Axis Bank"], [key |-> <<"SBI">>, name |-> "Sbi"],
       [key |-> <<"STATE", "BANK", "OF", "INDIA">>, name |-> "State Bank Of India"],
       [key |-> <<"KOTAK">>, name |-> "Kotak"],
       [key |-> <<"KOTAK", "MAHINDRA", "BANK">>, name |-> "Kotak Mahindra Bank"],
       [key |-> <<"YES", "BANK">>, name |-> "Yes Bank"], [key |-> <<"INDUSIND">>, name |-> "Indusind"],
       [key |-> <<"INDUSIND", "BANK">>, name |-> "Indusind Bank"] >>

\* Step 3 of extract_merchant_from_text: the brands sorted by the length of the key,
\* longest first (sorted() keeps the order of the dictionary among equal lengths);
\* the first whose key is found between word boundaries names the merchant.
extract_merchant_from_text(t) ==
    LET found == {i \in 1..Len(KNOWN_BRANDS) : Phrase(t, KNOWN_BRANDS[i].key)}
        first == CHOOSE i \in found : \A j \in found :
                    \/ CharLen(KNOWN_BRANDS[i].key) > CharLen(KNOWN_BRANDS[j].key)
                    \/ CharLen(KNOWN_BRANDS[i].key) = CharLen(KNOWN_BRANDS[j].key) /\ i <= j
    IN  IF found = {} THEN "Unknown" ELSE KNOWN_BRANDS[first].name

\* "extracted_merchant if extracted_merchant != 'Unknown' else <default>"
OrUnknown(extracted_merchant, default) ==
    IF extracted_merchant # "Unknown" THEN extracted_merchant ELSE default

\* Step 1, channel detection: the first pattern of the chain that is found.
DetectChannel(t, channel) ==
    IF Word(t, "CWDR") THEN "CASH"
    ELSE IF Word(t, "BUPI") THEN "UPI"
    ELSE IF Word(t, "MEDR") THEN "CARD"
    ELSE IF Word(t, "NACH") THEN "ACH"
    ELSE IF HasAny(t, {"UPIAB", "UPIAR", "MOBFT", "UPI"}) THEN "UPI"
    ELSE IF Word(t, "IMPS") THEN "IMPS"
    ELSE IF Word(t, "NEFT") THEN "NEFT"
    ELSE IF Word(t, "RTGS") THEN "RTGS"
    ELSE IF Word(t, "ATM") THEN "ATM"
    ELSE channel

\* final_result before the category rules: the suggestion with its defaults, the
\* extracted merchant over the suggested one, the detected channel.
InitialResult(t, extracted_merchant, suggestion) ==
    [ transaction_type |-> suggestion.transaction_type,
      merchant         |-> OrUnknown(extracted_merchant, suggestion.merchant),
      channel          |-> DetectChannel(t, suggestion.channel),
      debit_or_credit  |-> suggestion.debit_or_credit,
      category         |-> suggestion.category ]

\* A description in which no EMI or loan keyword is ever found.
NoLoanType(t, final) == "None"

\* The loan type of the elif chains at "PRIORITY 1" (final = FALSE) and at the final
\* safety check (final = TRUE), which has no CREDIT CARD EMI branch; "None" when no
\* EMI or loan keyword is found.
loan_type(t, final) ==
    IF Phrase(t, <<"HOME", "LOAN">>) \/ Phrase(t, <<"HOUSING", "LOAN">>) THEN "HOME_LOAN"
    ELSE IF Phrase(t, <<"PERSONAL", "LOAN">>) THEN "PERSONAL_LOAN"
    ELSE IF Phrase(t, <<"CAR", "LOAN">>) THEN "CAR_LOAN"
    ELSE IF Phrase(t, <<"EDUCATION", "LOAN">>) THEN "EDUCATION_LOAN"
    ELSE IF ~final /\ Phrase(t, <<"CREDIT", "CARD", "EMI">>) THEN "CREDIT_CARD_EMI"
    ELSE IF Phrase(t, <<"LOAN", "EMI">>) THEN "LOAN_EMI"
    ELSE IF Word(t, "HOMECRINDFIN") \/ Phrase(t, <<"HOME", "CREDIT">>) THEN "HOME_CREDIT"
    ELSE IF HasAny(t, {"NBFC", "FINANCE"}) THEN "LOAN"
    ELSE IF Word(t, "EMI") THEN "EMI"
    ELSE "None"

\* The merchant the EMI rule and the EMI safety check give a loan type.
LoanMerchant(type, extracted_merchant) ==
    CASE type = "HOME_LOAN" -> "Home Loan EMI"
      [] type = "PERSONAL_LOAN" -> "Personal Loan EMI"
      [] type = "CAR_LOAN" -> "Car Loan EMI"
      [] type = "EDUCATION_LOAN" -> "Education Loan EMI"
      [] type = "CREDIT_CARD_EMI" -> "Credit Card EMI"
      [] type = "HOME_CREDIT" -> "Home Credit EMI"
      [] type = "LOAN_EMI" -> "Loan EMI Payment"
      [] type = "EMI" -> "EMI Payment"
      [] OTHER -> OrUnknown(extracted_merchant, "Loan EMI Payment")

\* The merchant of the travel booking rule and of its safety check.
TravelMerchant(t, extracted_merchant) ==
    IF Word(t, "IRCTC") THEN "IRCTC"
    ELSE IF Word(t, "YATRA") THEN "Yatra"
    ELSE IF Word(t, "CLEARTRIP") THEN "Cleartrip"
    ELSE IF Phrase(t, <<"MAKE", "MY", "TRIP">>) \/ Word(t, "MAKEMYTRIP") THEN "MakeMyTrip"
    ELSE IF Word(t, "FLIGHT") THEN "Flight Booking"
    ELSE IF Word(t, "HOTEL") THEN "Hotel Booking"
    ELSE OrUnknown(extracted_merchant, "Travel Booking")

TelecomBrands == {"JIO", "AIRTEL", "VI", "VODAFONE", "BSNL"}
ServiceWords == {"RECHARGE", "BILL", "FIBER", "BROADBAND", "DTH"}

\* has_utility_keyword, and has_utility_keyword_final, which is computed alike.
has_utility_keyword(t) ==
    \/ HasAny(t, {"ELECTRICITY", "POWER", "DISCOM", "MSEDCL", "MSEB", "BESCOM", "TANGEDCO",
                  "LPG", "FIBER", "BROADBAND", "DTH", "INTERNET"})
    \/ Phrase(t, <<"GAS", "PAYMENT">>) \/ Phrase(t, <<"GAS", "BILL">>)
    \/ HasAny(t, TelecomBrands) /\ HasAny(t, ServiceWords)

\* telecom_brand: the first brand of the elif chain, when a service word comes with it.
telecom_brand(t) ==
    IF ~HasAny(t, ServiceWords) THEN "None"
    ELSE IF Word(t, "JIO") THEN "Jio"
    ELSE IF Word(t, "AIRTEL") THEN "Airtel"
    ELSE IF Word(t, "VI") THEN "Vi"
    ELSE IF Word(t, "VODAFONE") THEN "Vodafone"
    ELSE IF Word(t, "BSNL") THEN "BSNL"
    ELSE "None"

\* The merchant of the utilities rule.
UtilityMerchant(t, extracted_merchant) ==
    IF telecom_brand(t) # "None" THEN telecom_brand(t)
    ELSE IF Word(t, "MSEDCL") THEN "MSEDCL"
    ELSE IF Word(t, "MSEB") THEN "MSEB"
    ELSE IF Word(t, "BESCOM") THEN "BESCOM"
    ELSE IF Word(t, "TANGEDCO") THEN "TANGEDCO"
    ELSE IF Word(t, "DISCOM") THEN "DISCOM"
    ELSE IF HasAny(t, {"ELECTRICITY", "POWER"}) THEN "Electricity"
    ELSE IF Phrase(t, <<"GAS", "PAYMENT">>) \/ Phrase(t, <<"GAS", "BILL">>) \/ Word(t, "LPG")
         THEN "Gas"
    ELSE IF Word(t, "GAS")
         THEN IF ~HasAny(t, {"PETROL", "FUEL"}) THEN "Gas"
              ELSE OrUnknown(extracted_merchant, "None")
    ELSE IF Word(t, "INTERNET") THEN "Internet Service"
    ELSE OrUnknown(extracted_merchant, "None")

\* The salary rule's merchant of a salary credit: the words before " SALARY", less
\* the noise words, in title case when longer than two characters; else the first
\* known employer found; else "Salary".
SalaryMerchant(t) ==
    IF \E i \in 2..Len(t) : t[i] = "SALARY"
    THEN LET i == CHOOSE i \in 2..Len(t) : t[i] = "SALARY" /\ \A j \in 2..(i - 1) : t[j] # "SALARY"
             company_name == SelectSeq(SubSeq(t, 1, i - 1), LAMBDA w :
                 w \notin {"FROM", "FOR", "MONTH", "PAYMENT", "CREDIT", "DEBIT"})
         IN  IF CharLen(company_name) > 2 THEN TitleWords(company_name) ELSE "Salary"
    ELSE IF \E e \in 1..Len(KNOWN_EMPLOYERS) : Phrase(t, KNOWN_EMPLOYERS[e].key)
         THEN KNOWN_EMPLOYERS[CHOOSE e \in 1..Len(KNOWN_EMPLOYERS) :
                  /\ Phrase(t, KNOWN_EMPLOYERS[e].key)
                  /\ \A f \in 1..(e - 1) : ~Phrase(t, KNOWN_EMPLOYERS[f].key)].name
         ELSE "Salary"

\* The insurance rule's merchant.
InsuranceMerchant(t, extracted_merchant) ==
    IF Word(t, "LIC") THEN "LIC"
    ELSE IF Phrase(t, <<"HDFC", "LIFE">>) \/ Word(t, "HDFCLIFE") THEN "HDFC Life"
    ELSE IF \E i \in 2..Len(t) : t[i] = "INSURANCE"
         THEN LET i == CHOOSE i \in 2..Len(t) :
                           t[i] = "INSURANCE" /\ \A j \in (i + 1)..Len(t) : t[j] # "INSURANCE"
              IN  TitleWords(SubSeq(t, 1, i - 1)) \o " Insurance"
    ELSE OrUnknown(extracted_merchant, "LIC")

\* The category rules of Step 2, in the order of the code.
RuleOrder ==
    << "emi_loan", "education", "travel_booking", "atm", "cash_deposit", "fuel", "utilities",
       "groceries", "food_dining", "entertainment", "shopping", "travel", "healthcare", "rent",
       "insurance", "salary", "transfer", "interest", "billdk", "card_payment" >>

\* The number each rule compares with matched_priority.
Priority ==
    [ emi_loan |-> 1, education |-> 2, travel_booking |-> 3, atm |-> 4, cash_deposit |-> 4,
      fuel |-> 5, utilities |-> 6, groceries |-> 8, food_dining |-> 9, entertainment |-> 10,
      shopping |-> 11, travel |-> 11, healthcare |-> 12, rent |-> 13, insurance |-> 14,
      salary |-> 15, transfer |-> 4, interest |-> 16, billdk |-> 17, card_payment |-> 18 ]

EducationWords == {"SCHOOL", "SCHOOLFEES", "EDUCATION", "COLLEGE", "UNIVERSITY", "TUITION"}
TravelBookingWords == {"IRCTC", "YATRA", "CLEARTRIP", "MAKEMYTRIP", "FLIGHT", "HOTEL"}
is_cash_deposit(t) == Phrase(t, <<"CASH", "DEP">>) \/ Phrase(t, <<"CASH", "DEPOSIT">>)

\* The condition under which a rule is tried, apart from matched_priority.  channel
\* is final_result['channel'] after Step 1.  is_person_transfer needs "CR/" or
\* "UPIAR/" in the text and is false of every description of the model.
Matches(rule, t, channel) ==
    CASE rule = "emi_loan" -> loan_type(t, FALSE) # "None"
      [] rule = "education" -> HasAny(t, EducationWords \cup {"ADMISSION", "FEES"})
      [] rule = "travel_booking" ->
            HasAny(t, TravelBookingWords) \/ Phrase(t, <<"MAKE", "MY", "TRIP">>)
      [] rule = "atm" -> Word(t, "ATM") /\ ~is_cash_deposit(t)
      [] rule = "cash_deposit" -> is_cash_deposit(t)
      [] rule = "fuel" ->
            /\ ~( \/ HasAny(t, {"LPG", "ELECTRICITY", "POWER", "DISCOM", "MSEDCL", "MSEB",
                                "BESCOM", "TANGEDCO"})
                  \/ Phrase(t, <<"GAS", "PAYMENT">>) \/ Phrase(t, <<"GAS", "BILL">>) )
            /\ \/ HasAny(t, {"IOCL", "BPCL", "HPCL", "HP", "SHELL", "DIESEL"})
               \/ Phrase(t, <<"PETROL", "PUMP">>) \/ Phrase(t, <<"INDIAN", "OIL">>)
               \/ Phrase(t, <<"BHARAT", "PETROLEUM">>)
               \/ HasAny(t, {"PETROL", "FUEL"}) /\ ~Word(t, "GAS")
      [] rule = "utilities" -> has_utility_keyword(t)
      [] rule = "groceries" ->
            /\ ~HasAny(t, TelecomBrands)
            /\ ~HasAny(t, {"PETROL", "FUEL", "BPCL", "HPCL", "IOCL"})
            /\ ~has_utility_keyword(t)
            /\ \/ HasAny(t, {"SPENCERS", "SPENCER", "DMART", "BIGBAZAAR", "RELIANCE",
                             "BIGBASKET", "GROFERS"})
               \/ Phrase(t, <<"BIG", "BAZAAR">>) \/ Phrase(t, <<"BIG", "BASKET">>)
               \/ Phrase(t, <<"NATURE", "S", "BASKET">>) \/ Phrase(t, <<"NATURES", "BASKET">>)
      [] rule = "food_dining" ->
            \/ HasAny(t, {"SWIGGY", "ZOMATO", "MCDONALD", "MCDONALDS", "KFC", "BURGERKING",
                          "INSTAMART", "BARBEQUE", "MONCHUNIES", "DOMINOS", "DOMINO", "SUBWAY",
                          "HALDIRAM", "HALDIRAMS"})
            \/ Phrase(t, <<"BURGER", "KING">>) \/ Phrase(t, <<"PIZZA", "HUT">>)
      [] rule = "entertainment" ->
            \/ HasAny(t, {"PVR", "CINEPOLIS", "BOOKMYSHOW", "INOX", "CINEMA", "MOVIE"})
            \/ Phrase(t, <<"BOOK", "MY", "SHOW">>)
      [] rule = "shopping" ->
            \/ HasAny(t, {"AJIO", "AMAZON", "FLIPKART", "MYNTRA", "DMART", "BIGBAZAAR",
                          "PANTALOONS", "WESTSIDE", "LIFESTYLE", "SHOPPER"})
            \/ Phrase(t, <<"BIG", "BAZAAR">>)
      [] rule = "travel" ->
            \/ HasAny(t, {"OLA", "UBER", "RAPIDO", "IRCTC", "GOIBIBO", "METRO", "REDBUS",
                          "PMPML", "PMPL", "MAKEMYTRIP", "FASTAG", "TOLL"})
            \/ Phrase(t, <<"GO", "IBIBO">>) \/ Phrase(t, <<"RED", "BUS">>)
            \/ Phrase(t, <<"MAKE", "MY", "TRIP">>)
      [] rule = "healthcare" ->
            \/ HasAny(t, {"PRACTO", "GYM", "FITNESS", "CULTFIT", "TALWALKARS", "HOSPITAL",
                          "FORTIS", "APOLLO", "PHARMACY", "MEDICAL", "MEDPLUS"})
            \/ Phrase(t, <<"CULT", "FIT">>) \/ Phrase(t, <<"MED", "PLUS">>)
      [] rule = "rent" -> HasAny(t, {"RENT", "RENTAL"})
      [] rule = "insurance" ->
            HasAny(t, {"LIC", "HDFCLIFE", "INSURANCE", "PREMIUM", "POLICY"})
            \/ Phrase(t, <<"HDFC", "LIFE">>)
      [] rule = "salary" -> HasAny(t, {"SALARY", "PAYROLL"})
      [] rule = "transfer" ->
            /\ ~HasAny(t, {"EMI", "HOMECRINDFIN", "NBFC", "FINANCE"})
            /\ \A loan \in {"HOME", "HOUSING", "PERSONAL", "CAR", "EDUCATION"} :
                  ~Phrase(t, <<loan, "LOAN">>)
            /\ ~Phrase(t, <<"HOME", "CREDIT">>)
            /\ ~HasAny(t, (EducationWords \ {"SCHOOLFEES"}) \cup {"FEES"})
            /\ ~HasAny(t, TravelBookingWords) /\ ~Phrase(t, <<"MAKE", "MY", "TRIP">>)
            /\ \/ HasAny(t, {"UPIAB", "UPIAR", "MOBFT", "IMPS", "NEFT", "RTGS"})
               \/ Phrase(t, <<"UPI", "CR">>)
               \/ channel \in {"UPI", "IMPS", "NEFT", "RTGS"}
            /\ \A b \in 1..Len(KNOWN_BRANDS) : ~Phrase(t, KNOWN_BRANDS[b].key)
      [] rule = "interest" ->
            \E ph \in { <<"CREDIT", "INTEREST">>, <<"INTEREST", "CREDIT">>,
                        <<"INTEREST", "INCOME">>, <<"INTEREST", "PAID">>,
                        <<"INTEREST", "ON", "SAVINGS">>, <<"SAVINGS", "INTEREST">> } :
                Phrase(t, ph)
      [] rule = "billdk" -> Word(t, "BILLDK") /\ Word(t, "CARDS")
      [] rule = "card_payment" ->
            \E ph \in { <<"SBI", "CARDS">>, <<"CREDIT", "CARD">>, <<"CARDS", "PAYMENT">>,
                        <<"CC", "PAYMENT">> } \cup
                      { <<"CARD", w>> : w \in {"PAYMENT", "SETTLEMENT", "BILL", "DUES",
                            "OUTSTANDING", "STATEMENT", "MINIMUM", "AMOUNT", "REPAYMENT"} } :
                Phrase(t, ph)

\* matched_priority and the matched_* values; None is "None".
Matched(priority, category, merchant, transaction_type, channel, debit_or_credit) ==
    [ priority |-> priority, category |-> category, merchant |-> merchant,
      transaction_type |-> transaction_type, channel |-> channel,
      debit_or_credit |-> debit_or_credit ]

NoMatch == Matched(999, "None", "None", "None", "None", "None")

\* What a rule assigns to the matched_* values when it is taken.  The person-name
\* patterns of the transfer rule need "/" or "-", so its merchant is the extracted
\* one or "Transfer".
Effect(rule, t, extracted_merchant, debit, credit, channel) ==
    CASE rule = "emi_loan" ->
            Matched(1, "emi_loan", LoanMerchant(loan_type(t, FALSE), extracted_merchant),
                    "loan_payment", "None", "None")
      [] rule = "education" ->
            Matched(2, "education",
                    IF Phrase(t, <<"SCHOOL", "FEES">>) \/ Word(t, "SCHOOLFEES") THEN "School Fees"
                    ELSE IF Word(t, "SCHOOL") THEN "School"
                    ELSE IF Word(t, "COLLEGE") THEN "College"
                    ELSE IF Word(t, "UNIVERSITY") THEN "University"
                    ELSE IF Word(t, "TUITION") THEN "Tuition"
                    ELSE IF Word(t, "ADMISSION") THEN "Admission"
                    ELSE IF Word(t, "FEES") THEN "Fees"
                    ELSE OrUnknown(extracted_merchant, "Education"),
                    "expense", "None", "None")
      [] rule = "travel_booking" ->
            Matched(3, "travel", TravelMerchant(t, extracted_merchant), "expense", "None", "None")
      [] rule = "atm" -> Matched(4, "cash", "ATM Withdrawal", "withdrawal", "ATM", "debit")
      [] rule = "cash_deposit" -> Matched(4, "cash", "Cash Deposit", "credit", "CASH", "credit")
      [] rule = "utilities" ->
            Matched(6, "bills_utilities", UtilityMerchant(t, extracted_merchant),
                    "None", "None", "None")
      [] rule = "shopping" ->
            Matched(11, "shopping",
                    IF Word(t, "AJIO") THEN "AJIO" ELSE OrUnknown(extracted_merchant, "None"),
                    "None", "None", "None")
      [] rule = "travel" ->
            Matched(11, "travel",
                    IF HasAny(t, {"FASTAG", "TOLL"}) THEN "Fastag"
                    ELSE OrUnknown(extracted_merchant, "None"),
                    "None", "None", "None")
      [] rule = "rent" ->
            Matched(13, "rent", OrUnknown(extracted_merchant, "Rent Payment"),
                    "None", "None", "None")
      [] rule = "insurance" ->
            Matched(14, "insurance", InsuranceMerchant(t, extracted_merchant),
                    "None", "None", "None")
      [] rule = "salary" ->
            IF debit > 0 /\ credit = 0
            THEN Matched(15, "bank_charges", "Bank", "debit", "None", "debit")
            ELSE Matched(15, "income", SalaryMerchant(t), "credit", "None", "credit")
      [] rule = "transfer" ->
            Matched(4, "transfer", OrUnknown(extracted_merchant, "Transfer"),
                    IF debit = 0 /\ credit > 0 THEN "transfer_received" ELSE "transfer",
                    IF HasAny(t, {"UPIAB", "UPIAR", "MOBFT"}) THEN "UPI"
                    ELSE IF Word(t, "IMPS") THEN "IMPS"
                    ELSE IF Word(t, "NEFT") THEN "NEFT"
                    ELSE IF Word(t, "RTGS") THEN "RTGS"
                    ELSE IF Word(t, "UPI") \/ channel = "UPI" THEN "UPI"
                    ELSE "None",
                    IF debit > 0 THEN "debit" ELSE IF credit > 0 THEN "credit" ELSE "None")
      [] rule = "interest" ->
            Matched(16, "interest_income", "None", "credit", "None", "credit")
      [] rule = "billdk" ->
            Matched(17, "credit_card_payment",
                    IF HasAny(t, {"SBI", "HDFC", "AXIS", "ICICI", "KOTAK", "PNB", "BOI", "UNION",
                                  "CENTRAL"})
                    THEN t[CHOOSE i \in 1..Len(t) :
                             /\ t[i] \in {"SBI", "HDFC", "AXIS", "ICICI", "KOTAK", "PNB", "BOI",
                                          "UNION", "CENTRAL"}
                             /\ \A j \in 1..(i - 1) :
                                   t[j] \notin {"SBI", "HDFC", "AXIS", "ICICI", "KOTAK", "PNB",
                                                "BOI", "UNION", "CENTRAL"}] \o " Credit Card"
                    ELSE "Credit Card",
                    "None", "None", "None")
      [] rule = "card_payment" ->
            Matched(18, "credit_card_payment", "None", "None", "None", "None")
      [] OTHER ->   \* fuel, groceries, food_dining, entertainment, healthcare
            Matched(Priority[rule], rule, OrUnknown(extracted_merchant, "None"),
                    "None", "None", "None")

\* One rule of Step 2: it is taken when its condition holds and its number is below
\* matched_priority (the transfer rule: when nothing has matched yet), and then it
\* assigns the matched_* values it has a value for.
ApplyRule(rule, m, t, extracted_merchant, debit, credit, channel) ==
    IF /\ Matches(rule, t, channel)
       /\ Priority[rule] < m.priority
       /\ (rule = "transfer" => m.priority = NoMatch.priority)
    THEN [ f \in DOMAIN m |->
             IF f = "priority" THEN Priority[rule]
             ELSE IF Effect(rule, t, extracted_merchant, debit, credit, channel)[f] # "None"
             THEN Effect(rule, t, extracted_merchant, debit, credit, channel)[f]
             ELSE m[f] ]
    ELSE m

\* Step 2: the first n rules of RuleOrder, one after the other.
RECURSIVE Ladder(_, _, _, _, _, _)
Ladder(n, t, extracted_merchant, debit, credit, channel) ==
    IF n = 0 THEN NoMatch
    ELSE ApplyRule(RuleOrder[n], Ladder(n - 1, t, extracted_merchant, debit, credit, channel),
                   t, extracted_merchant, debit, credit, channel)

\* Step 3 left out: the suggestion is kept whatever rule matched.
KeepSuggestion(final, m) == final

\* Step 3: the matched values that are set go into final_result.
ApplyMatched(final, m) ==
    IF m.priority < NoMatch.priority
    THEN [ f \in DOMAIN final |-> IF m[f] # "None" THEN m[f] ELSE final[f] ]
    ELSE final

\* The keys of KNOWN_BRANDS that are substrings of merchant.upper(), in the order
\* of the dictionary, for the merchants the rules of the model produce.
brand_keys_in(merchant) ==
    CASE merchant = "Swiggy" -> <<"SWIGGY">> [] merchant = "Zomato" -> <<"ZOMATO">>
      [] merchant = "McDonalds" -> <<"MCDONALD", "MCDONALDS">> [] merchant = "KFC" -> <<"KFC">>
      [] merchant = "Burger King" -> <<"BURGER KING">> [] merchant = "Instamart" -> <<"INSTAMART">>
      [] merchant = "Barbeque Nation" -> <<"BARBEQUE NATION", "BARBEQUE">>
      [] merchant = "Monchunies" -> <<"MONCHUNIES">>
      [] merchant = "Dominos Pizza" -> <<"DOMINOS", "DOMINO", "PIZZA">>
      [] merchant = "Pizza Hut" -> <<"PIZZA HUT", "PIZZA">> [] merchant = "Pizza" -> <<"PIZZA">>
      [] merchant = "Subway" -> <<"SUBWAY">> [] merchant = "Haldiram" -> <<"HALDIRAM">>
      [] merchant = "Spencer's" -> <<"SPENCER'S", "SPENCER">> [] merchant = "DMart" -> <<"DMART">>
      [] merchant = "Big Bazaar" -> <<"BIG BAZAAR">>
      [] merchant = "Reliance Smart" -> <<"RELIANCE SMART", "RELIANCE">>
      [] merchant = "Reliance" -> <<"RELIANCE">> [] merchant = "Nature's Basket" -> <<"NATURE'S BASKET">>
      [] merchant = "BigBasket" -> <<"BIGBASKET">> [] merchant = "Grofers" -> <<"GROFERS">>
      [] merchant = "AJIO" -> <<"AJIO", "JIO">> [] merchant = "Amazon" -> <<"AMAZON">>
      [] merchant = "Flipkart" -> <<"FLIPKART">> [] merchant = "Myntra" -> <<"MYNTRA">>
      [] merchant = "Pantaloons" -> <<"PANTALOONS">> [] merchant = "Westside" -> <<"WESTSIDE">>
      [] merchant = "Lifestyle" -> <<"LIFESTYLE">> [] merchant = "Shoppers Stop" -> <<"SHOPPER">>
      [] merchant = "PVR" -> <<"PVR">> [] merchant = "PVR Cinemas" -> <<"PVR", "PVR CINEMAS", "CINEMA">>
      [] merchant = "Cinepolis" -> <<"CINEPOLIS">> [] merchant = "INOX" -> <<"INOX">>
      [] merchant = "BookMyShow" -> <<"BOOKMYSHOW">> [] merchant = "Cinema" -> <<"CINEMA">>
      [] merchant = "Movie" -> <<"MOVIE", "VI">> [] merchant = "Ola" -> <<"OLA">>
      [] merchant = "Uber" -> <<"UBER">> [] merchant = "Rapido" -> <<"RAPIDO">>
      [] merchant = "IRCTC" -> <<"IRCTC">> [] merchant = "Metro" -> <<"METRO">>
      [] merchant = "RedBus" -> <<"REDBUS">> [] merchant = "PMPML" -> <<"PMPML">>
      [] merchant = "MakeMyTrip" -> <<"MAKEMYTRIP">> [] merchant = "Goibibo" -> <<"GOIBIBO">>
      [] merchant = "Practo" -> <<"PRACTO">> [] merchant = "Gold's Gym" -> <<"GOLD'S GYM", "GYM">>
      [] merchant = "Gym" -> <<"GYM">> [] merchant = "Fitness" -> <<"FITNESS">>
      [] merchant = "Talwalkars" -> <<"TALWALKARS">>
      [] merchant = "Anytime Fitness" -> <<"FITNESS", "ANYTIME FITNESS">>
      [] merchant = "Hospital" -> <<"HOSPITAL">> [] merchant = "Fortis" -> <<"FORTIS">>
      [] merchant = "Apollo" -> <<"APOLLO">> [] merchant = "Pharmacy" -> <<"PHARMACY">>
      [] merchant = "Medical" -> <<"MEDICAL">> [] merchant = "MedPlus" -> <<"MEDPLUS">>
      [] merchant = "Indian Oil" -> <<"INDIAN OIL">> [] merchant = "HP" -> <<"HP">>
      [] merchant = "HPCL" -> <<"HP", "HPCL">> [] merchant = "Bharat Petroleum" -> <<"BHARAT PETROLEUM">>
      [] merchant = "Shell" -> <<"SHELL">> [] merchant = "Petrol Pump" -> <<"PETROL PUMP">>
      [] merchant = "Airtel" -> <<"AIRTEL">> [] merchant = "Jio" -> <<"JIO">>
      [] merchant = "Vodafone" -> <<"VODAFONE">> [] merchant = "Vi" -> <<"VI">>
      [] merchant = "BSNL" -> <<"BSNL">> [] merchant = "Fiber" -> <<"FIBER">>
      [] merchant = "Broadband" -> <<"BROADBAND">> [] merchant = "DTH" -> <<"DTH">>
      [] merchant = "Electricity" -> <<"ELECTRICITY">> [] merchant = "Gas" -> <<"GAS">>
      [] merchant = "LIC" -> <<"LIC">> [] merchant = "HDFC Life" -> <<"HDFC LIFE">>
      [] merchant = "Ravi Kumar" -> <<"VI">> [] merchant = "Ravi" -> <<"VI">>
      [] merchant = "Internet Service" -> <<"VI">> [] merchant = "Tata Consultancy Services" -> <<"VI">>
      [] merchant = "Amazon India" -> <<"AMAZON">> [] merchant = "Ola Cabs" -> <<"OLA">>
      [] merchant = "Uber India" -> <<"UBER">> [] merchant = "Reliance Industries" -> <<"RELIANCE">>
      [] OTHER -> <<>>

\* Step 4, the final safety checks, in the order of the code.  Each takes
\* final_result and gives it back, changed or not.
ATMSafety(final, t, debit) ==
    IF /\ HasAny(t, {"ATM", "ATW"}) /\ debit > 0
       /\ final.category \in {"shopping", "groceries", "food_dining", "travel", "transfer"}
    THEN [ category |-> "cash", merchant |-> "ATM Withdrawal", transaction_type |-> "withdrawal",
           channel |-> "ATM", debit_or_credit |-> "debit" ]
    ELSE final

RentSafety(final, t, extracted_merchant) ==
    IF HasAny(t, {"RENT", "RENTAL"}) /\ final.category = "transfer"
    THEN [final EXCEPT !.category = "rent",
                       !.merchant = OrUnknown(extracted_merchant, "Rent Payment")]
    ELSE final

EducationSafety(final, t) ==
    IF /\ \/ HasAny(t, (EducationWords \ {"EDUCATION"}) \cup {"ADMISSION"})
          \/ \E fee \in {"FEE", "FEES"} : \E w \in {"SCHOOL", "EDUCATION", "TUITION", "ANNUAL"} :
                Phrase(t, <<w, fee>>)
          \/ Word(t, "FEES") /\ Word(t, "EDUCATION")
       /\ final.category \in {"transfer", "others", "shopping"}
    THEN [final EXCEPT !.category = "education", !.transaction_type = "expense", !.merchant =
            IF Phrase(t, <<"SCHOOL", "FEES">>) \/ Word(t, "SCHOOLFEES") THEN "School Fees"
            ELSE IF Phrase(t, <<"EDUCATION", "FEE">>) \/ Phrase(t, <<"EDUCATION", "FEES">>)
                 THEN "Education Fee"
            ELSE IF Phrase(t, <<"TUITION", "FEE">>) \/ Phrase(t, <<"TUITION", "FEES">>)
                 THEN "Tuition Fee"
            ELSE IF Phrase(t, <<"ANNUAL", "FEE">>) \/ Phrase(t, <<"ANNUAL", "FEES">>)
                 THEN "School Fees"
            ELSE IF Phrase(t, <<"SCHOOL", "ADMISSION">>) THEN "School Admission"
            ELSE IF Word(t, "SCHOOL") THEN "School"
            ELSE IF Word(t, "COLLEGE") THEN "College"
            ELSE IF Word(t, "UNIVERSITY") THEN "University"
            ELSE IF Word(t, "TUITION") THEN "Tuition"
            ELSE IF Word(t, "ADMISSION") THEN "Admission"
            ELSE "Fees"]
    ELSE final

TravelSafety(final, t, extracted_merchant) ==
    IF /\ HasAny(t, TravelBookingWords) \/ Phrase(t, <<"MAKE", "MY", "TRIP">>)
       /\ final.category \in {"transfer", "others"}
    THEN [final EXCEPT !.category = "travel", !.transaction_type = "expense",
                       !.merchant = TravelMerchant(t, extracted_merchant)]
    ELSE final

EMISafety(final, t, extracted_merchant) ==
    IF /\ loan_type(t, TRUE) # "None"
       /\ final.category \in {"transfer", "shopping", "food_dining", "groceries", "entertainment",
                              "travel", "healthcare", "fuel", "bills_utilities"}
    THEN [final EXCEPT !.category = "emi_loan", !.transaction_type = "loan_payment",
                       !.merchant = LoanMerchant(loan_type(t, TRUE), extracted_merchant)]
    ELSE final

UtilitySafety(final, t) ==
    IF has_utility_keyword(t) /\ final.category \in {"transfer", "fuel"}
    THEN [final EXCEPT !.category = "bills_utilities", !.merchant =
            IF Word(t, "MSEDCL") THEN "MSEDCL"
            ELSE IF Word(t, "MSEB") THEN "MSEB"
            ELSE IF Word(t, "BESCOM") THEN "BESCOM"
            ELSE IF Word(t, "TANGEDCO") THEN "TANGEDCO"
            ELSE IF Word(t, "DISCOM") THEN "DISCOM"
            ELSE IF HasAny(t, {"ELECTRICITY", "POWER"}) THEN "Electricity"
            ELSE IF \/ Phrase(t, <<"GAS", "PAYMENT">>) \/ Phrase(t, <<"GAS", "BILL">>)
                    \/ Word(t, "LPG") THEN "Gas"
            ELSE IF Word(t, "JIO") THEN "Jio"
            ELSE IF Word(t, "AIRTEL") THEN "Airtel"
            ELSE IF Word(t, "VI") THEN "Vi"
            ELSE IF Word(t, "VODAFONE") THEN "Vodafone"
            ELSE IF Word(t, "BSNL") THEN "BSNL"
            ELSE IF Word(t, "INTERNET") THEN "Internet Service"
            ELSE IF final.merchant = "Unknown" THEN "Utility"
            ELSE final.merchant]
    ELSE final

\* The UPI category correction.
UPICorrection(final) ==
    IF /\ final.channel = "UPI" /\ final.category = "transfer"
       /\ final.merchant = "Unknown" /\ brand_keys_in(final.merchant) = <<>>
    THEN [final EXCEPT !.merchant = "UPI Transfer"]
    ELSE final

\* "Merchant must not be 'Unknown' if brand exists"
MerchantSafety(final, extracted_merchant) ==
    IF final.merchant = "Unknown" /\ extracted_merchant # "Unknown"
    THEN [final EXCEPT !.merchant = extracted_merchant]
    ELSE final

\* The category of a brand in the lists of the check "brand merchants cannot be
\* transfer"; "transfer" for a brand of none of them.
BrandCategory(brand_key) ==
    IF brand_key \in {"SWIGGY", "ZOMATO", "MCDONALD", "KFC", "DOMINOS", "PIZZA HUT", "SUBWAY",
                      "HALDIRAM"} THEN "food_dining"
    ELSE IF brand_key \in {"DMART", "BIG BAZAAR", "BIGBAZAAR", "SPENCERS", "SPENCER'S",
                           "SPENCER", "RELIANCE", "BIGBASKET", "GROFERS"} THEN "groceries"
    ELSE IF brand_key \in {"PVR", "CINEPOLIS", "BOOKMYSHOW", "INOX", "CINEMA", "MOVIE"}
         THEN "entertainment"
    ELSE IF brand_key \in {"AJIO", "AMAZON", "FLIPKART", "MYNTRA", "PANTALOONS", "WESTSIDE",
                           "LIFESTYLE"} THEN "shopping"
    ELSE IF brand_key \in {"LIC", "HDFC LIFE", "HDFCLIFE"} THEN "insurance"
    ELSE "transfer"

\* Brand merchants cannot be transfer: the first brand key found in the merchant
\* decides; if the category is still transfer, the lists are tried in their order
\* against every brand found in the merchant.
BrandSafety(final) ==
    LET keys == brand_keys_in(final.merchant)
        found(category) == \E i \in 1..Len(keys) : BrandCategory(keys[i]) = category
    IN  IF final.category # "transfer" \/ keys = <<>> THEN final
        ELSE IF BrandCategory(keys[1]) # "transfer"
             THEN [final EXCEPT !.category = BrandCategory(keys[1])]
        ELSE IF found("food_dining") THEN [final EXCEPT !.category = "food_dining"]
        ELSE IF found("groceries") THEN [final EXCEPT !.category = "groceries"]
        ELSE IF found("entertainment") THEN [final EXCEPT !.category = "entertainment"]
        ELSE IF found("shopping") THEN [final EXCEPT !.category = "shopping"]
        ELSE IF found("insurance") THEN [final EXCEPT !.category = "insurance"]
        ELSE final

\* DTH, broadband, fiber and the telecom brands are never entertainment.
TelecomSafety(final, t) ==
    IF /\ HasAny(t, {"DTH", "FIBER", "BROADBAND", "AIRTEL", "JIO", "VI", "BSNL"})
       /\ final.category = "entertainment"
    THEN [final EXCEPT !.category = "bills_utilities", !.merchant =
            IF Word(t, "JIO") THEN "Jio"
            ELSE IF Word(t, "AIRTEL") THEN "Airtel"
            ELSE IF Word(t, "VODAFONE") THEN "Vodafone"
            ELSE IF Word(t, "VI") THEN "Vi"
            ELSE IF Word(t, "BSNL") THEN "BSNL"
            ELSE final.merchant]
    ELSE final

\* Step 5, first part: a MEDR row is made a debit.
MEDROverride(final, t) ==
    IF Word(t, "MEDR")
    THEN [final EXCEPT !.debit_or_credit = "debit",
                       !.transaction_type = IF @ = "credit" THEN "debit" ELSE @]
    ELSE final

\* Step 5, second part: the direction follows the amounts.  credit is credit_amount
\* after the MEDR override, which sets it to 0.
DirectionOverride(final, debit, credit) ==
    IF debit > 0 /\ credit = 0
    THEN [final EXCEPT !.debit_or_credit = "debit", !.transaction_type =
            IF @ = "credit"
            THEN (IF final.category = "transfer" THEN "transfer"
                  ELSE IF final.category = "cash" THEN "withdrawal"
                  ELSE "debit")
            ELSE IF @ \notin {"debit", "transfer", "withdrawal"} THEN "debit"
            ELSE @]
    ELSE IF credit > 0 /\ debit = 0
    THEN [final EXCEPT !.debit_or_credit = "credit", !.transaction_type = "credit"]
    ELSE final

\* Steps 1 to 3.
CategoryRules(t, extracted_merchant, suggestion, debit, credit) ==
    ApplyMatched(InitialResult(t, extracted_merchant, suggestion),
                 Ladder(Len(RuleOrder), t, extracted_merchant, debit, credit,
                        DetectChannel(t, suggestion.channel)))

\* Step 4.
SafetyChecks(final, t, extracted_merchant, debit) ==
    TelecomSafety(
      BrandSafety(
        MerchantSafety(
          UPICorrection(
            UtilitySafety(
              EMISafety(
                TravelSafety(
                  EducationSafety(
                    RentSafety(ATMSafety(final, t, debit), t, extracted_merchant),
                    t),
                  t, extracted_merchant),
                t, extracted_merchant),
              t)),
          extracted_merchant)),
      t)

apply_global_rules(t, suggestion, debit, credit) ==
    DirectionOverride(
      MEDROverride(
        SafetyChecks(
          CategoryRules(t, extract_merchant_from_text(t), suggestion, debit, credit),
          t, extract_merchant_from_text(t), debit),
        t),
      debit, IF Word(t, "MEDR") THEN 0 ELSE credit)

\* The phrases a description of the model is made of, each at most once and in this
\* order.  The one rule that looks at the order of the words, the salary rule, finds
\* the words before SALARY; RAVI is the phrase that can stand there.
Vocabulary ==
    << <<"RAVI">>, <<"SALARY">>, <<"AMAZON">>, <<"EMI">>, <<"SCHOOL">>, <<"ANNUAL", "FEE">>,
       <<"IRCTC">>, <<"ATM">>, <<"CASH", "WDL">>, <<"CASH", "DEP">>, <<"HP">>, <<"FIBER">>,
       <<"JIO">>, <<"DMART">>, <<"SWIGGY">>, <<"PVR">>, <<"OLA">>, <<"GYM">>, <<"RENT">>,
       <<"LIC">>, <<"NEFT">>, <<"UPI">>, <<"MEDR">>, <<"CREDIT", "INTEREST">>,
       <<"CARD", "PAYMENT">> >>

\* The suggestions apply_global_rules is handed: the defaults, and two that
\* contradict the amounts and the keywords.
Suggestions ==
    { [ transaction_type |-> "debit", merchant |-> "Unknown", channel |-> "OTHER",
        debit_or_credit |-> "debit", category |-> "transfer" ],
      [ transaction_type |-> "credit", merchant |-> "Swiggy", channel |-> "UPI",
        debit_or_credit |-> "credit", category |-> "shopping" ],
      [ transaction_type |-> "expense", merchant |-> "Ravi Kumar", channel |-> "CARD",
        debit_or_credit |-> "debit", category |-> "others" ] }

\* The amounts of a row, in paise.
Amounts == {0, 10000}

\* The number of phrases of a description.
MaxKeywords == 3

\* One more phrase of the vocabulary is put at the end of the description.
AddKeyword(k) ==
    /\ final_result = NoResult
    /\ Cardinality({j \in 1..Len(Vocabulary) : Phrase(text, Vocabulary[j])}) < MaxKeywords
    /\ \A j \in k..Len(Vocabulary) : ~Phrase(text, Vocabulary[j])
    /\ text' = text \o Vocabulary[k]
    /\ UNCHANGED <<suggested_result, debit_amount, credit_amount, final_result>>
    /\ UNCHANGED <<cbiVars, transactions, status, bank, tableVars, dbVars, runVars>>

\* final_result = apply_global_rules(text, base_suggestion, debit_amount, credit_amount)
ApplyGlobalRules ==
    /\ final_result = NoResult
    /\ final_result' = apply_global_rules(text, suggested_result, debit_amount, credit_amount)
    /\ UNCHANGED <<text, suggested_result, debit_amount, credit_amount>>
    /\ UNCHANGED <<cbiVars, transactions, status, bank, tableVars, dbVars, runVars>>

InitNorm ==
    /\ text = <<>>
    /\ suggested_result \in Suggestions
    /\ debit_amount \in Amounts
    /\ credit_amount \in Amounts
    /\ final_result = NoResult
    /\ state = WAIT_FOR_TRANSACTION
    /\ current_transaction = NoTxn
    /\ transactions = <<>>
    /\ status = "idle"
    /\ anchors = <<>>
    /\ described = FALSE
    /\ undescribed = FALSE
    /\ bank = "HDFC Bank"
    /\ consumed = 0
    /\ sources = <<>>
    /\ genuine = <<>>
    /\ statements = 0
    /\ stored = <<>>
    /\ openai_enabled = FALSE
    /\ advisory = NoResponse
    /\ PipelineIdle

NextNorm ==
    \/ \E k \in 1..Len(Vocabulary) : AddKeyword(k)
    \/ ApplyGlobalRules

SpecNorm == InitNorm /\ [][NextNorm]_vars

\* ------------------------------------------------------------------------
\* rule_based_normalizer.py: the deterministic suggestion
\*
\* The rule-based normaliser reads the description as a string of characters
\* and tests its keywords with "in", so a keyword is found inside a longer
\* word as well.  A word of a description is made of letters only or of digits
\* only; no word holds POS, ACH, "-" or "@", so the patterns of
\* extract_merchant that need one are not reached.
\* ------------------------------------------------------------------------

\* "k in s" on strings.
In(k, s) == \E i \in 1..(Len(s) - Len(k) + 1) : SubSeq(s, i, i + Len(k) - 1) = k
InAny(ks, s) == \E k \in ks : In(k, s)

\* The description as the code holds it: the words joined by single spaces.
RECURSIVE Join(_)
Join(ws) ==
    IF ws = <<>> THEN ""
    ELSE IF Len(ws) = 1 THEN ws[1] ELSE ws[1] \o " " \o Join(Tail(ws))

\* char.isdigit() on the characters of a word.
IsNumber(w) == SubSeq(w, 1, 1) \in {"0", "1", "2", "3", "4", "5", "6", "7", "8", "9"}

\* detect_channel
detect_channel(s) ==
    IF In("UPI", s) THEN "UPI"
    ELSE IF In("ATM", s) \/ In("ATW", s) THEN "ATM"
    ELSE IF In("NEFT", s) THEN "NEFT"
    ELSE IF In("RTGS", s) THEN "RTGS"
    ELSE IF In("IMPS", s) THEN "IMPS"
    ELSE IF In("POS", s) \/ In("CARD", s) THEN "CARD"
    ELSE IF In("ACH", s) THEN "ACH"
    ELSE IF In("CASH", s) THEN "CASH"
    ELSE IF In("CHEQUE", s) \/ In("CHQ", s) THEN "CHEQUE"
    ELSE IF In("ONLINE", s) \/ In("IB", s) \/ In("BILLPAY", s) THEN "ONLINE"
    ELSE "OTHER"

\* detect_transaction_type
detect_transaction_type(s, debit_or_credit) ==
    IF debit_or_credit = "credit"
    THEN IF In("SAL", s) THEN "salary"
         ELSE IF In("TRANSFER", s) \/ In("IMPS", s) \/ In("NEFT", s) THEN "transfer_received"
         ELSE IF In("REFUND", s) \/ In("REVERSAL", s) THEN "refund"
         ELSE IF In("INTEREST", s) THEN "interest"
         ELSE IF In("CASH DEP", s) THEN "deposit"
         ELSE "credit"
    ELSE IF In("ATM", s) \/ In("ATW", s) THEN "withdrawal"
         ELSE IF In("POS", s) \/ In("SWIPE", s) THEN "purchase"
         ELSE IF In("UPI", s) THEN "upi_payment"
         ELSE IF In("BILL", s) THEN "bill_payment"
         ELSE IF In("EMI", s) THEN "emi"
         ELSE IF In("TRANSFER", s) \/ In("IMPS", s) \/ In("NEFT", s) THEN "transfer"
         ELSE IF In("FEE", s) \/ In("CHARGE", s) THEN "fee"
         ELSE "debit"

\* extract_merchant: the dictionary merchants, key and name, in its order.
merchants ==
    <<
       <<"AMAZON", "Amazon">>, <<"FLIPKART", "Flipkart">>, <<"SWIGGY", "Swiggy">>,
       <<"ZOMATO", "Zomato">>, <<"UBER", "Uber">>, <<"OLA", "Ola">>,
       <<"NETFLIX", "Netflix">>, <<"PRIME", "Amazon Prime">>, <<"PAYTM", "Paytm">>,
       <<"PHONEPE", "PhonePe">>, <<"GPAY", "Google Pay">>, <<"DMART", "DMart">>,
       <<"BIG BAZAAR", "Big Bazaar">>, <<"MORE", "More Supermarket">>,
       <<"RELIANCE", "Reliance">>, <<"HALDIRAM", "Haldiram">>,
       <<"DOMINOS", "Dominos Pizza">>, <<"KFC", "KFC">>, <<"MCDONALD", "McDonalds">>,
       <<"PIZZA HUT", "Pizza Hut">>, <<"PANTALOONS", "Pantaloons">>,
       <<"SHOPPER", "Shoppers Stop">>, <<"WESTSIDE", "Westside">>,
       <<"LIFESTYLE", "Lifestyle">>, <<"IRCTC", "IRCTC">>, <<"MAKEMYTRIP", "MakeMyTrip">>,
       <<"GOIBIBO", "Goibibo">>, <<"BARBEQUE NATION", "Barbeque Nation">>,
       <<"CAFE", "Cafe">>, <<"RESTAURANT", "Restaurant">>, <<"PETROL", "Petrol Pump">>,
       <<"HOSPITAL", "Hospital">>, <<"PHARMACY", "Pharmacy">>, <<"APOLLO", "Apollo">>,
       <<"VODAFONE", "Vodafone">>, <<"AIRTEL", "Airtel">>, <<"JIO", "Jio">>,
       <<"TATA", "Tata">>, <<"MYNTRA", "Myntra">>, <<"MEDPLUS", "MedPlus">>,
       <<"MED PLUS", "MedPlus">>, <<"NATURE'S BASKET", "Nature's Basket">>,
       <<"NATURE S BASKET", "Nature's Basket">>, <<"SPENCERS", "Spencer's">>,
       <<"SPENCER'S", "Spencer's">>, <<"SPENCERS RETAIL", "Spencer's">>,
       <<"RELIANCE SMART", "Reliance Smart">>, <<"BIGBASKET", "BigBasket">>,
       <<"BIG BASKET", "BigBasket">>, <<"BURGER KING", "Burger King">>,
       <<"BURGERKING", "Burger King">>, <<"INSTAMART", "Instamart">>,
       <<"MONCHUNIES", "Monchunies">>, <<"PVR", "PVR">>, <<"INOX", "INOX">>,
       <<"BOOKMYSHOW", "BookMyShow">>, <<"RAPIDO", "Rapido">>, <<"PRACTO", "Practo">>,
       <<"GOLD'S GYM", "Gold's Gym">>, <<"GOLDS GYM", "Gold's Gym">>,
       <<"CULT FIT", "Cult.fit">>, <<"CULTFIT", "Cult.fit">>,
       <<"TALWALKARS", "Talwalkars">>, <<"ANYTIME FITNESS", "Anytime Fitness">>,
       <<"INDIAN OIL", "Indian Oil">>, <<"IOCL", "Indian Oil">>, <<"HPCL", "HPCL">>,
       <<"BHARAT PETROLEUM", "Bharat Petroleum">>, <<"VI", "Vi">>, <<"BSNL", "BSNL">> >>

\* extract_merchant, generic extraction: the numbers of ten digits and more are
\* removed, then the first three words of three letters and more are kept.
RECURSIVE MerchantWords(_, _)
MerchantWords(ws, n) ==
    IF ws = <<>> \/ n = 0 THEN <<>>
    ELSE IF ~IsNumber(Head(ws)) /\ Len(Head(ws)) >= 3
         THEN <<Head(ws)>> \o MerchantWords(Tail(ws), n - 1)
         ELSE MerchantWords(Tail(ws), n)

\* extract_merchant: the first key of merchants found in the text; else, for a text
\* with UPI that is more than a code, the text itself; else the generic extraction.
extract_merchant(t) ==
    LET found == {i \in 1..Len(merchants) : In(merchants[i][1], Join(t))}
        skipped == Join(t) \in {"UPI", "PAYMENT", "TRANSFER"} \/ (Len(t) = 1 /\ Len(t[1]) >= 4)
    IN  IF found # {} THEN merchants[CHOOSE i \in found : \A j \in found : i <= j][2]
        ELSE IF In("UPI", Join(t)) /\ ~skipped THEN TitleWords(t)
        ELSE IF MerchantWords(t, 3) # <<>> THEN TitleWords(MerchantWords(t, 3))
        ELSE "Unknown"

\* categorize_transaction: the keyword rules in their order.
categorize_transaction(t, s, debit) ==
    IF (In("ATM", s) \/ In("ATW", s)) /\ InAny({"CASH", "WDL", "WITHDRAWAL"}, s) /\ debit > 0
    THEN "cash"
    ELSE IF \/ Phrase(t, <<"CREDIT", "INTEREST">>) \/ Phrase(t, <<"INTEREST", "CREDIT">>)
            \/ Phrase(t, <<"INTEREST", "INCOME">>) \/ Phrase(t, <<"INTEREST", "PAID">>)
            \/ Phrase(t, <<"INTEREST", "ON", "SAVINGS">>) \/ Phrase(t, <<"SAVINGS", "INTEREST">>)
    THEN "interest_income"
    ELSE IF InAny({ "SBI CARDS", "CARD PAYMENT", "CARD SETTLEMENT", "CARD BILL", "CREDIT CARD",
                       "CARD DUES", "CARD OUTSTANDING", "CARD STATEMENT", "CARD MINIMUM", "CARD AMOUNT",
                       "CARDS PAYMENT", "CC PAYMENT", "CARD REPAYMENT" }, s)
    THEN "credit_card_payment"
    ELSE IF InAny({ "SWIGGY", "ZOMATO", "MCDONALD", "MCDONALDS", "KFC", "BURGER KING", "BURGERKING",
                       "INSTAMART", "BARBEQUE NATION", "BARBEQUE", "MONCHUNIES", "DOMINOS", "DOMINO",
                       "PIZZA HUT", "PIZZA", "HALDIRAM", "HALDIRAMS" }, s)
    THEN "food_dining"
    ELSE IF InAny({ "SPENCERS", "SPENCER'S", "SPENCERS RETAIL", "DMART", "D'MART", "BIG BAZAAR",
                       "BIGBAZAAR", "RELIANCE SMART", "RELIANCE", "NATURE'S BASKET", "NATURE S BASKET",
                       "NATURE BASKET", "BIGBASKET", "BIG BASKET" }, s)
    THEN "groceries"
    ELSE IF InAny({ "CINEMA", "MOVIE", "PVR", "INOX", "BOOKMYSHOW" }, s)
    THEN "entertainment"
    ELSE IF InAny({ "OLA", "UBER", "RAPIDO", "PMPML", "PMPL", "BUS PASS", "BUS TICKET", "REDBUS",
                       "RED BUS", "IRCTC", "METRO", "MAKE MY TRIP", "MAKEMYTRIP" }, s)
    THEN "travel"
    ELSE IF InAny({ "PRACTO", "GYM", "FITNESS", "GOLD'S GYM", "GOLDS GYM", "CULT FIT", "CULTFIT",
                       "TALWALKARS", "ANYTIME FITNESS", "HOSPITAL", "PHARMACY", "MEDICAL", "MEDPLUS",
                       "MED PLUS" }, s)
    THEN "healthcare"
    ELSE IF InAny({ "INDIAN OIL", "IOCL", "HP", "HPCL", "BPCL", "BHARAT PETROLEUM", "PETROL PUMP",
                       "FUEL", "PETROL", "DIESEL" }, s)
    THEN "fuel"
    ELSE IF InAny({ "AIRTEL", "JIO", "VODAFONE", "VI", "BSNL", "FIBER", "BROADBAND", "DTH" }, s)
    THEN "bills_utilities"
    ELSE IF InAny({ "NEFT", "IMPS", "RTGS", "BANK TRANSFER", "UPI P2P" }, s)
    THEN "transfer"
    ELSE "others"

\* rule_based_normalizer.normalize_transaction, which the hybrid normaliser imports
\* as rule_based_normalize.
rule_based_normalize(t, debit, credit) ==
    LET debit_or_credit == IF credit > 0 THEN "credit" ELSE "debit"
        category == categorize_transaction(t, Join(t), debit)
    IN  IF category = "cash"
        THEN [ transaction_type |-> "withdrawal", merchant |-> "ATM Withdrawal",
               channel |-> "ATM", debit_or_credit |-> debit_or_credit, category |-> category ]
        ELSE [ transaction_type |-> detect_transaction_type(Join(t), debit_or_credit),
               merchant |-> extract_merchant(t), channel |-> detect_channel(Join(t)),
               debit_or_credit |-> debit_or_credit, category |-> category ]

\* ------------------------------------------------------------------------
\* openai_normalizer_enhanced.py and hybrid_normalizer.py normalize_transaction
\*
\* A response of the advisory service is what client.chat.completions.create
\* does when it is called: it answers with a JSON object, with text that is
\* not a JSON object, or it raises.  A JSON null is the string "null".
\* ------------------------------------------------------------------------

\* str.lower() of the categories the service answers with.
lower(c) ==
    CASE c = "Shopping" -> "shopping" [] c = "Transfer" -> "transfer"
      [] c = "Others" -> "others"     [] c = "Food" -> "food"
      [] OTHER -> c

\* category_mapping.get(openai_category, openai_category)
category_mapping(c) ==
    CASE c = "food" -> "food_dining"          [] c = "transport" -> "travel"
      [] c = "health" -> "healthcare"         [] c = "utilities" -> "bills_utilities"
      [] c = "bills" -> "bills_utilities"     [] c = "other" -> "others"
      [] c = "cash withdrawal" -> "cash"      [] OTHER -> c

\* fallback_normalization: the rule-based result; its confidence and rationale are
\* read by nobody.
fallback_normalization(t, debit, credit) ==
    [raised |-> "None"] @@ rule_based_normalize(t, debit, credit)

\* normalize_transaction_with_openai: the fields of the answer, the fallback for
\* text that json.loads or normalized.get rejects and for an error of the call,
\* RuntimeError for an invalid API key.  An absent key is the empty string.
normalize_transaction_with_openai(t, debit, credit, response) ==
    IF response.kind = "answer"
    THEN [ raised |-> "None", transaction_type |-> "", merchant |-> response.merchant,
           channel |-> response.channel, debit_or_credit |-> response.debit_or_credit,
           category |-> response.category ]
    ELSE IF response.kind = "unauthorized"
    THEN [ raised |-> "RuntimeError", transaction_type |-> "", merchant |-> "Unknown",
           channel |-> "OTHER", debit_or_credit |-> "", category |-> "" ]
    ELSE fallback_normalization(t, debit, credit)

\* "openai_suggestion = {}": the advisory service is not enabled.
NoSuggestion ==
    [ raised |-> "None", transaction_type |-> "", merchant |-> "Unknown", channel |-> "OTHER",
      debit_or_credit |-> "", category |-> "" ]

\* is_rule_weak and not is_simple_transfer: the advisory service is consulted.
is_rule_weak(t, rule_suggestion) ==
    LET rule_category == IF rule_suggestion.category = "others" THEN "transfer"
                         ELSE rule_suggestion.category
        is_simple_transfer ==
            /\ CharLen(t) < 20
            /\ rule_category = "transfer"
            /\ ~\E i \in 1..Len(t) : IsNumber(t[i]) /\ CharLen(SubSeq(t, 1, i - 1)) < 29
    IN  /\ rule_category = "transfer" \/ rule_suggestion.merchant \in {"Unknown", ""}
        /\ ~is_simple_transfer

\* Validation 1: the suggestion against the debit and credit columns.
violates_debit_credit_rule(openai_suggestion, debit, credit) ==
    IF debit > 0 /\ credit = 0
    THEN openai_suggestion.debit_or_credit = "credit" \/ openai_suggestion.transaction_type = "credit"
    ELSE IF credit > 0 /\ debit = 0
    THEN openai_suggestion.debit_or_credit = "debit" \/ openai_suggestion.transaction_type = "debit"
    ELSE FALSE

AnyPhrase(t, phs) == \E ph \in phs : Phrase(t, ph)

\* Validation 2: the suggested category against the keyword lists of the validation.
violates_keyword_rule(t, openai_category, debit) ==
    \/ /\ Word(t, "ATM") \/ Phrase(t, <<"CASH", "WDL">>) \/ Phrase(t, <<"CASH", "WITHDRAWAL">>)
       /\ debit > 0
       /\ openai_category # "cash"
    \/ /\ AnyPhrase(t, { <<"SWIGGY">>, <<"ZOMATO">>, <<"MCDONALD">>, <<"KFC">>,
                         <<"BURGER", "KING">>, <<"INSTAMART">>, <<"BARBEQUE", "NATION">>,
                         <<"MONCHUNIES">>, <<"DOMINOS">>, <<"SUBWAY">> })
       /\ openai_category \notin {"food_dining", "food"}
    \/ /\ AnyPhrase(t, { <<"DMART">>, <<"BIG", "BAZAAR">>, <<"RELIANCE", "SMART">>,
                         <<"SPENCERS">>, <<"BIGBASKET">>, <<"GROFERS">>,
                         <<"NATURE", "S", "BASKET">> })
       /\ openai_category # "groceries"
    \/ /\ HasAny(t, {"CINEMA", "MOVIE", "PVR", "INOX", "BOOKMYSHOW", "CINEPOLIS"})
       /\ openai_category # "entertainment"
    \/ /\ AnyPhrase(t, { <<"OLA">>, <<"UBER">>, <<"RAPIDO">>, <<"IRCTC">>, <<"METRO">>,
                         <<"REDBUS">>, <<"PMPML">>, <<"MAKE", "MY", "TRIP">>, <<"GOIBIBO">> })
       /\ openai_category \notin {"travel", "transport"}
    \/ /\ AnyPhrase(t, { <<"PRACTO">>, <<"GYM">>, <<"FITNESS">>, <<"CULT", "FIT">>,
                         <<"TALWALKARS">>, <<"ANYTIME", "FITNESS">>, <<"HOSPITAL">>,
                         <<"FORTIS">>, <<"APOLLO">> })
       /\ openai_category \notin {"healthcare", "health"}
    \/ /\ HasAny(t, {"AIRTEL", "JIO", "VI", "VODAFONE", "BSNL", "FIBER", "BROADBAND", "DTH",
                     "ELECTRICITY", "GAS"})
       /\ openai_category \notin {"bills_utilities", "utilities", "bills"}
    \/ /\ AnyPhrase(t, { <<"INDIAN", "OIL">>, <<"IOCL">>, <<"HP">>, <<"HPCL">>, <<"BPCL">>,
                         <<"BHARAT", "PETROLEUM">>, <<"PETROL", "PUMP">>, <<"SHELL">> })
       /\ openai_category # "fuel"
    \/ /\ AnyPhrase(t, { <<"NEFT">>, <<"IMPS">>, <<"RTGS">>, <<"BANK", "TRANSFER">>,
                         <<"UPI", "P2P">> })
       /\ openai_category # "transfer"

\* The suggestion with the defaults apply_global_rules reads for its absent keys.
WithDefaults(suggestion) ==
    [ transaction_type |-> IF suggestion.transaction_type = "" THEN "debit"
                           ELSE suggestion.transaction_type,
      merchant         |-> suggestion.merchant,
      channel          |-> suggestion.channel,
      debit_or_credit  |-> IF suggestion.debit_or_credit = "" THEN "debit"
                           ELSE suggestion.debit_or_credit,
      category         |-> suggestion.category ]

\* Steps 2 and 3: the suggestion of the advisory service when it passes both
\* validations, the rule-based suggestion when it does not or when the try block
\* raises (RuntimeError of the call, .lower() of a null).
ValidatedSuggestion(t, rule_suggestion, openai_suggestion, debit, credit) ==
    IF \/ openai_suggestion.raised # "None"
       \/ "null" \in {openai_suggestion.debit_or_credit, openai_suggestion.transaction_type,
                      openai_suggestion.category}
       \/ violates_debit_credit_rule(openai_suggestion, debit, credit)
       \/ violates_keyword_rule(t, lower(openai_suggestion.category), debit)
    THEN rule_suggestion
    ELSE WithDefaults([openai_suggestion EXCEPT
                          !.category = category_mapping(lower(openai_suggestion.category))])

\* base_suggestion: steps 1 to 3 of normalize_transaction.
base_suggestion(t, debit, credit, enabled, response) ==
    IF is_rule_weak(t, rule_based_normalize(t, debit, credit))
    THEN ValidatedSuggestion(t, rule_based_normalize(t, debit, credit),
             IF enabled THEN normalize_transaction_with_openai(t, debit, credit, response)
             ELSE NoSuggestion,
             debit, credit)
    ELSE rule_based_normalize(t, debit, credit)

\* normalize_transaction: the global rules applied to the base suggestion.
normalize_transaction(t, debit, credit, enabled, response) ==
    apply_global_rules(t, base_suggestion(t, debit, credit, enabled, response), debit, credit)

\* The phrases a description handed to normalize_transaction is made of, each at
\* most once and in this order; "UPI SWIGGY 1234567890 DR" is one of them.
Descriptions ==
    << <<"ATM">>, <<"CASH", "WDL">>, <<"SCHOOL">>, <<"ANNUAL", "FEE">>, <<"EMI">>, <<"NEFT">>,
       <<"UPI">>, <<"SWIGGY">>, <<"1234567890", "DR">>, <<"SHOPKEEPER">> >>

\* The responses of the model: four answers, one of them with a null where the
\* channel should stand and one with a null category; text that is not JSON; JSON
\* that is not an object; an error of the network; an invalid key.
Responses ==
    { Response("answer", "Some Shop", "Shopping", "CARD", "debit"),
      Response("answer", "Unknown", "Transfer", "UPI", "credit"),
      Response("answer", "Some Shop", "Others", "null", "debit"),
      Response("answer", "Some Shop", "null", "CARD", "debit"),
      Response("not_json", "", "", "", ""),
      Response("not_object", "", "", "", ""),
      Response("network", "", "", "", ""),
      Response("unauthorized", "", "", "", "") }

\* The amounts of the row handed to normalize_transaction, in paise.
RowAmountsPaise == {0, 35000}

\* One more phrase is put at the end of the description of the row.
AddWord(k) ==
    /\ final_result = NoResult
    /\ Cardinality({j \in 1..Len(Descriptions) : Phrase(text, Descriptions[j])}) < MaxKeywords
    /\ \A j \in k..Len(Descriptions) : ~Phrase(text, Descriptions[j])
    /\ text' = text \o Descriptions[k]
    /\ UNCHANGED <<suggested_result, debit_amount, credit_amount, final_result>>
    /\ UNCHANGED <<cbiVars, transactions, status, bank, tableVars, dbVars, runVars>>

\* normalize_transaction(txn): base_suggestion is chosen, then
\* final_result = apply_global_rules(text, base_suggestion, debit_amount, credit_amount).
NormalizeTransaction ==
    /\ final_result = NoResult
    /\ text # <<>>
    /\ suggested_result' = base_suggestion(text, debit_amount, credit_amount,
                                           openai_enabled, advisory)
    /\ final_result' = normalize_transaction(text, debit_amount, credit_amount,
                                             openai_enabled, advisory)
    /\ UNCHANGED <<text, debit_amount, credit_amount>>
    /\ UNCHANGED <<cbiVars, transactions, status, bank, tableVars, dbVars, runVars>>

InitHybrid ==
    /\ text = <<>>
    /\ suggested_result = NoResult
    /\ debit_amount \in RowAmountsPaise
    /\ credit_amount \in RowAmountsPaise
    /\ final_result = NoResult
    /\ openai_enabled \in BOOLEAN
    /\ advisory \in Responses
    /\ openai_enabled \/ advisory = Response("network", "", "", "", "")
    /\ PipelineIdle
    /\ state = WAIT_FOR_TRANSACTION
    /\ current_transaction = NoTxn
    /\ transactions = <<>>
    /\ status = "idle"
    /\ anchors = <<>>
    /\ described = FALSE
    /\ undescribed = FALSE
    /\ bank = "HDFC Bank"
    /\ consumed = 0
    /\ sources = <<>>
    /\ genuine = <<>>
    /\ statements = 0
    /\ stored = <<>>

NextHybrid ==
    \/ \E k \in 1..Len(Descriptions) : AddWord(k)
    \/ NormalizeTransaction

SpecHybrid == InitHybrid /\ [][NextHybrid]_vars

\* ------------------------------------------------------------------------
\* services/pdf_processor.py: process_pdf_to_mongodb, one call per uploaded PDF.
\* The calls run in the threads of one server process: they share os.environ
\* and the two collections.
\* ------------------------------------------------------------------------

\* The uploads of the model.  insert_one gives each statement a fresh ObjectId;
\* the id of the statement of an upload is written as the name of the upload.
Uploads == {"u1", "u2"}

\* BANK_NAME_MAP, its keys upper-cased, in the order of sorted(keys, key=len, reverse=True).
sorted_keys ==
    << <<"CENTRAL BANK OF INDIA", "CBI">>, <<"CENTRAL BANK OF INDIA", "CBI">>,
       <<"STATE BANK OF INDIA", "SBI">>, <<"UNION BANK OF INDIA", "UNION">>,
       <<"UNION BANK OF INDIA", "UNION">>, <<"BANK OF INDIA", "BOI">>,
       <<"CENTRAL BANK", "CBI">>, <<"UNION BANK", "UNION">>, <<"HDFC BANK", "HDFC">>,
       <<"AXIS BANK", "AXIS">>, <<"UNION", "UNION">>, <<"HDFC", "HDFC">>,
       <<"AXIS", "AXIS">>, <<"SBI", "SBI">>, <<"BOI", "BOI">>, <<"CBI", "CBI">> >>

\* bank_name.upper() for the bank names of the model.
bank_name_upper(bank_name) ==
    CASE bank_name = "HDFC Bank" -> "HDFC BANK"
      [] bank_name = "Central Bank of India" -> "CENTRAL BANK OF INDIA"
      [] bank_name = "Bank of India" -> "BANK OF INDIA"
      [] bank_name = "Union Bank of India" -> "UNION BANK OF INDIA"
      [] bank_name = "State Bank of India" -> "STATE BANK OF INDIA"
      [] bank_name = "Axis Bank" -> "AXIS BANK"
      [] bank_name = "ICICI Bank" -> "ICICI BANK"
      [] bank_name = "Kotak Bank" -> "KOTAK BANK"
      [] bank_name = "Bank (Unidentified)" -> "BANK (UNIDENTIFIED)"
      [] OTHER -> bank_name

\* detect_bank_type_from_name(bank_name, pdf_path); the paths of the model name no bank.
detect_bank_type_from_name(bank_name) ==
    IF bank_name = "" THEN "SBI"
    ELSE IF \E k \in 1..Len(sorted_keys) : In(sorted_keys[k][1], bank_name_upper(bank_name))
    THEN sorted_keys[CHOOSE k \in 1..Len(sorted_keys) :
                        /\ In(sorted_keys[k][1], bank_name_upper(bank_name))
                        /\ \A j \in 1..(k - 1) :
                              ~In(sorted_keys[j][1], bank_name_upper(bank_name))][2]
    ELSE "SBI"

\* db/schema.py BANK_TYPES.get(bank_type.upper(), bank_type.upper()); the bank types
\* detect_bank_type_from_name returns are upper case and keys of BANK_TYPES.
bank_code(bank_type) == bank_type

\* db/schema.py create_bank_statement_doc, with the _id insert_one gives it.
create_bank_statement_doc(id, bank_type, account_data, total_transactions) ==
    [ _id |-> id, bankType |-> bank_code(bank_type),
      accountNumber |-> account_data.account_number,
      accountHolder |-> account_data.account_holder,
      totalTransactions |-> total_transactions ]

\* A transaction document that carries the default bank type whatever its statement.
DefaultBankDoc(statement_id, bank_type, original) ==
    [ statementId |-> statement_id, bankType |-> "SBI" ] @@ create_transaction_doc(original)

\* db/schema.py create_transaction_doc: statementId and bankType, then the fields
\* taken from the raw transaction.
transaction_doc(statement_id, bank_type, original) ==
    [ statementId |-> statement_id, bankType |-> bank_code(bank_type) ]
        @@ create_transaction_doc(original)

\* "if user_id: doc['userId'] = user_id"
WithUser(doc, user_id) == IF user_id # "" THEN [userId |-> user_id] @@ doc ELSE doc

\* A raw transaction as extract_transactions returns it.
RawTransaction(date, description, debit, credit) ==
    [ date |-> date, description |-> description, debit |-> debit, credit |-> credit,
      amount |-> 0, balance |-> 0, transaction_type |-> "" ]

\* MAX_NORMALIZE_TRANSACTIONS and DISABLE_OPENAI_THRESHOLD are read from the
\* environment (defaults '300' and '120'); the server of the model is started
\* with the values 3 and 2.
max_txns == 3
disable_openai_threshold == 2

\* txns_to_process = transactions[:max_txns]
txns_to_process(u) ==
    SubSeq(documents[u].transactions, 1,
           IF Len(documents[u].transactions) < max_txns
           THEN Len(documents[u].transactions) ELSE max_txns)

\* The rows of txns_to_process whose worker has returned.
Done(u) == { completed[u][k].idx : k \in 1..Len(completed[u]) }

\* Steps 1 to 3, up to the pool: no transactions raises ValueError; otherwise
\* DISABLE_OPENAI_NORMALIZATION is set in, or popped from, os.environ, which
\* is_openai_enabled reads.
BeginNormalization(u) ==
    /\ phase[u] = "extracted"
    /\ IF documents[u].transactions = <<>>
       THEN /\ phase' = [phase EXCEPT ![u] = "raised"]
            /\ UNCHANGED openai_enabled
       ELSE /\ phase' = [phase EXCEPT ![u] = "normalizing"]
            /\ openai_enabled' = ~(Len(txns_to_process(u)) > disable_openai_threshold)
    /\ UNCHANGED <<advisory, documents, completed, normalized_transactions, auth_failed,
                   statements_col, transactions_col, deletion>>
    /\ UNCHANGED <<cbiVars, transactions, status, bank, tableVars, dbVars, normVars, accountVars,
                   ioVars>>

\* process_single_txn(txn) in a thread of the pool: normalize_transaction(txn),
\* which asks is_openai_enabled() when the rule-based suggestion is weak.
ProcessSingleTxn(u, i) ==
    /\ phase[u] = "normalizing"
    /\ i \in (1..Len(txns_to_process(u))) \ Done(u)
    /\ LET txn == txns_to_process(u)[i]
           normalized == normalize_transaction(txn.description, txn.debit, txn.credit,
                                               openai_enabled, advisory)
           called == /\ openai_enabled
                     /\ is_rule_weak(txn.description,
                                     rule_based_normalize(txn.description, txn.debit,
                                                          txn.credit))
       IN  /\ completed' = [completed EXCEPT ![u] =
                               Append(@, [idx |-> i, original |-> txn,
                                          normalized |-> normalized])]
           /\ auth_failed' = [auth_failed EXCEPT ![u] =
                                 @ \/ (called /\ advisory.kind = "unauthorized")]
    /\ UNCHANGED <<openai_enabled, advisory, documents, phase, normalized_transactions,
                   statements_col, transactions_col, deletion>>
    /\ UNCHANGED <<cbiVars, transactions, status, bank, tableVars, dbVars, normVars, accountVars,
                   ioVars>>

\* The results as the workers delivered them, first completed first.
CompletionOrder(c, n) ==
    [ i \in 1..n |-> [original |-> c[i].original, normalized |-> c[i].normalized] ]

\* results = list(executor.map(process_single_txn, txns_to_process)): the result
\* of each row at the position of the row, whatever the order of completion.
results(c, n) ==
    [ i \in 1..n |-> LET k == CHOOSE k \in 1..Len(c) : c[k].idx = i
                     IN  [original |-> c[k].original, normalized |-> c[k].normalized] ]

\* normalized_transactions = [r for r in results if r is not None]; a row whose
\* normalisation raised is None.
NotNone(r) == r.normalized # NoResult

\* The pool has finished every row: the results are collected and the empty
\* list raises ValueError.
CollectResults(u) ==
    /\ phase[u] = "normalizing"
    /\ Done(u) = 1..Len(txns_to_process(u))
    /\ normalized_transactions' =
          [normalized_transactions EXCEPT ![u] =
              SelectSeq(results(completed[u], Len(txns_to_process(u))), NotNone)]
    /\ phase' = [phase EXCEPT ![u] =
                    IF normalized_transactions'[u] = <<>> THEN "raised" ELSE "normalized"]
    /\ UNCHANGED <<openai_enabled, advisory, documents, completed, auth_failed,
                   statements_col, transactions_col, deletion>>
    /\ UNCHANGED <<cbiVars, transactions, status, bank, tableVars, dbVars, normVars, accountVars,
                   ioVars>>

\* Steps 4 to 6: statements_col.insert_one(statement_doc).
InsertStatement(u) ==
    /\ phase[u] = "normalized"
    /\ statements_col' =
          Append(statements_col,
                 WithUser(create_bank_statement_doc(
                              u, detect_bank_type_from_name(documents[u].bank_name),
                              documents[u], Len(normalized_transactions[u])),
                          documents[u].user_id))
    /\ phase' = [phase EXCEPT ![u] = "inserting"]
    /\ UNCHANGED <<openai_enabled, advisory, documents, completed, normalized_transactions,
                   auth_failed, transactions_col, deletion>>
    /\ UNCHANGED <<cbiVars, transactions, status, bank, tableVars, dbVars, normVars, accountVars,
                   ioVars>>

\* Step 7: transactions_col.insert_many(transaction_docs).  The documents of the
\* model have fewer than 50 rows, so the one insert is that of the remaining rows.
InsertTransactions(u) ==
    /\ phase[u] = "inserting"
    /\ transactions_col' =
          transactions_col \o
             [ k \in 1..Len(normalized_transactions[u]) |->
                  WithUser(transaction_doc(
                               u, detect_bank_type_from_name(documents[u].bank_name),
                               normalized_transactions[u][k].original),
                           documents[u].user_id) ]
    /\ phase' = [phase EXCEPT ![u] = "stored"]
    /\ UNCHANGED <<openai_enabled, advisory, documents, completed, normalized_transactions,
                   auth_failed, statements_col, deletion>>
    /\ UNCHANGED <<cbiVars, transactions, status, bank, tableVars, dbVars, normVars, accountVars,
                   ioVars>>

\* The raw transactions of the PDFs of the model.
SchoolRow == RawTransaction("01/02/2024", <<"SCHOOL", "1234567890", "DR">>, 35000, 0)
SwiggyRow == RawTransaction("02/02/2024", <<"UPI", "SWIGGY", "1234567890", "DR">>, 35000, 0)
NeftRow == RawTransaction("03/02/2024", <<"NEFT", "1234567890", "DR">>, 0, 35000)
ShopkeeperRow == RawTransaction("04/02/2024", <<"SHOPKEEPER", "1234567890", "DR">>, 35000, 0)

\* The PDFs of the model, each with the user who uploads it: one with no
\* transaction, one at the threshold, one above it and longer than max_txns.
EmptyPdf ==
    [bank_name |-> "HDFC Bank", account_number |-> "50100123456789",
     account_holder |-> <<"RAVI", "KUMAR">>, user_id |-> "alice", transactions |-> <<>>]
ShortPdf ==
    [bank_name |-> "HDFC Bank", account_number |-> "50100123456789",
     account_holder |-> <<"RAVI", "KUMAR">>, user_id |-> "alice",
     transactions |-> <<SchoolRow, SwiggyRow>>]
LongPdf ==
    [bank_name |-> "Central Bank of India", account_number |-> "3216549870",
     account_holder |-> <<"TEJAL", "RAUT">>, user_id |-> "alice",
     transactions |-> <<NeftRow, SwiggyRow, SchoolRow, ShopkeeperRow>>]
Pdfs == {EmptyPdf, ShortPdf, LongPdf}

\* What the advisory service does during the runs of the model.
RunResponses ==
    { Response("answer", "Some Shop", "Shopping", "CARD", "debit"),
      Response("unauthorized", "", "", "", "") }

InitRun ==
    /\ documents \in [Uploads -> Pdfs]
    /\ phase = [u \in Uploads |-> "extracted"]
    /\ completed = [u \in Uploads |-> <<>>]
    /\ normalized_transactions = [u \in Uploads |-> <<>>]
    /\ auth_failed = [u \in Uploads |-> FALSE]
    /\ statements_col = <<>>
    /\ transactions_col = <<>>
    /\ deletion = <<>>
    /\ AccountIdle
    /\ IoIdle
    /\ openai_enabled = TRUE
    /\ advisory \in RunResponses
    /\ text = <<>>
    /\ suggested_result = NoResult
    /\ debit_amount = 0
    /\ credit_amount = 0
    /\ final_result = NoResult
    /\ state = WAIT_FOR_TRANSACTION
    /\ current_transaction = NoTxn
    /\ transactions = <<>>
    /\ status = "idle"
    /\ anchors = <<>>
    /\ described = FALSE
    /\ undescribed = FALSE
    /\ bank = "HDFC Bank"
    /\ consumed = 0
    /\ sources = <<>>
    /\ genuine = <<>>
    /\ statements = 0
    /\ stored = <<>>

NextRun ==
    \/ \E u \in Uploads : BeginNormalization(u)
    \/ \E u \in Uploads : \E i \in 1..max_txns : ProcessSingleTxn(u, i)
    \/ \E u \in Uploads : CollectResults(u)
    \/ \E u \in Uploads : InsertStatement(u)
    \/ \E u \in Uploads : InsertTransactions(u)

SpecRun == InitRun /\ [][NextRun]_vars

\* ------------------------------------------------------------------------
\* The two collections under uploads, imports (db/insert_bank_statements.py)
\* and deletions (db/repositories.py StatementRepository.delete).
\* ------------------------------------------------------------------------

\* The JSON files the import script is run on, and the deletion requests.
Imports == {"j1"}
Requests == {"r1", "r2"}
Users == {"alice", "bob"}

\* db/insert_bank_statements.py BANK_NAME_MAP, its keys upper-cased, in the order
\* of the dictionary.
BANK_NAME_MAP ==
    << <<"STATE BANK OF INDIA", "SBI">>, <<"SBI", "SBI">>, <<"HDFC BANK", "HDFC">>,
       <<"HDFC", "HDFC">>, <<"BANK OF INDIA", "BOI">>, <<"BOI", "BOI">>,
       <<"CENTRAL BANK OF INDIA", "CBI">>, <<"CENTRAL BANK", "CBI">>, <<"CBI", "CBI">>,
       <<"UNION BANK OF INDIA", "UNION">>, <<"UNION BANK", "UNION">>, <<"UNION", "UNION">>,
       <<"AXIS BANK", "AXIS">>, <<"AXIS", "AXIS">> >>

\* The value of the first key of BANK_NAME_MAP that is a substring of s, or "None".
FirstBankIn(s) ==
    IF \E k \in 1..Len(BANK_NAME_MAP) : In(BANK_NAME_MAP[k][1], s)
    THEN BANK_NAME_MAP[CHOOSE k \in 1..Len(BANK_NAME_MAP) :
                          /\ In(BANK_NAME_MAP[k][1], s)
                          /\ \A j \in 1..(k - 1) : ~In(BANK_NAME_MAP[j][1], s)][2]
    ELSE "None"

\* db/insert_bank_statements.py detect_bank_type(bank_name, file_path); path_upper
\* is the path of the file in upper case.
detect_bank_type(bank_name, path_upper) ==
    IF In("/CENTRAL", path_upper) THEN "CBI"
    ELSE IF In("/UNION", path_upper) THEN "UNION"
    ELSE IF In("UNION", path_upper) /\ In("STATEMENT", path_upper) THEN "UNION"
    ELSE IF In("CENTRAL", path_upper) /\ In("STATEMENT", path_upper) THEN "CBI"
    ELSE IF FirstBankIn(bank_name_upper(bank_name)) # "None"
    THEN FirstBankIn(bank_name_upper(bank_name))
    ELSE IF FirstBankIn(path_upper) # "None" THEN FirstBankIn(path_upper)
    ELSE "SBI"

\* process_json_file up to statements_col.insert_one(statement_doc): the script
\* attaches no user.
ImportStatement(j) ==
    /\ phase[j] = "read"
    /\ statements_col' =
          Append(statements_col,
                 create_bank_statement_doc(
                     j, detect_bank_type(documents[j].bank_name, documents[j].path_upper),
                     documents[j], Len(documents[j].transactions)))
    /\ phase' = [phase EXCEPT ![j] = "inserting"]
    /\ UNCHANGED <<openai_enabled, advisory, documents, completed, normalized_transactions,
                   auth_failed, transactions_col, deletion>>
    /\ UNCHANGED <<cbiVars, transactions, status, bank, tableVars, dbVars, normVars, accountVars,
                   ioVars>>

\* process_json_file: transactions_col.insert_many(transaction_docs); the files of
\* the model have fewer than 50 transactions.
ImportTransactions(j) ==
    /\ phase[j] = "inserting"
    /\ transactions_col' =
          transactions_col \o
             [ k \in 1..Len(documents[j].transactions) |->
                  transaction_doc(j, detect_bank_type(documents[j].bank_name,
                                                      documents[j].path_upper),
                                  documents[j].transactions[k].original) ]
    /\ phase' = [phase EXCEPT ![j] = "stored"]
    /\ UNCHANGED <<openai_enabled, advisory, documents, completed, normalized_transactions,
                   auth_failed, statements_col, deletion>>
    /\ UNCHANGED <<cbiVars, transactions, status, bank, tableVars, dbVars, normVars, accountVars,
                   ioVars>>

\* process_pdf_to_mongodb, step 7, when transactions_col.insert_many raises: the
\* except branch logs the error and raises it again, and upload_pdf removes the PDF
\* file and answers with the error.  Neither deletes a document.
InsertManyRaises(u) ==
    /\ phase[u] = "inserting"
    /\ phase' = [phase EXCEPT ![u] = "raised"]
    /\ UNCHANGED <<openai_enabled, advisory, documents, completed, normalized_transactions,
                   auth_failed, statements_col, transactions_col, deletion>>
    /\ UNCHANGED <<cbiVars, transactions, status, bank, tableVars, dbVars, normVars, accountVars,
                   ioVars>>

\* process_json_file when transactions_col.insert_many raises: the exception goes to
\* process_directory, which prints it and continues with the next file.
ImportInsertManyRaises(j) ==
    /\ phase[j] = "inserting"
    /\ phase' = [phase EXCEPT ![j] = "raised"]
    /\ UNCHANGED <<openai_enabled, advisory, documents, completed, normalized_transactions,
                   auth_failed, statements_col, transactions_col, deletion>>
    /\ UNCHANGED <<cbiVars, transactions, status, bank, tableVars, dbVars, normVars, accountVars,
                   ioVars>>

\* A document has the user of a query: {..., 'userId': user_id}.
OfUser(doc, user_id) == "userId" \in DOMAIN doc /\ doc.userId = user_id

\* StatementRepository.delete(statement_id, user_id) up to
\* "statement = statements_col.find_one(query); if not statement: return False".
FindStatement(r, statement_id, user_id) ==
    /\ deletion[r].pc = "idle"
    /\ deletion' = [deletion EXCEPT ![r] =
          [ pc |-> IF \E k \in 1..Len(statements_col) :
                         /\ statements_col[k]._id = statement_id
                         /\ OfUser(statements_col[k], user_id)
                   THEN "found" ELSE "returned_false",
            statement_id |-> statement_id, user_id |-> user_id ]]
    /\ UNCHANGED <<openai_enabled, advisory, documents, phase, completed,
                   normalized_transactions, auth_failed, statements_col, transactions_col>>
    /\ UNCHANGED <<cbiVars, transactions, status, bank, tableVars, dbVars, normVars, accountVars,
                   ioVars>>

\* transactions_col.delete_many({'statementId': obj_id, 'userId': user_id})
DeleteTransactions(r) ==
    /\ deletion[r].pc = "found"
    /\ LET Kept(t) == ~(t.statementId = deletion[r].statement_id
                          /\ OfUser(t, deletion[r].user_id))
       IN  transactions_col' = SelectSeq(transactions_col, Kept)
    /\ deletion' = [deletion EXCEPT ![r].pc = "transactions_deleted"]
    /\ UNCHANGED <<openai_enabled, advisory, documents, phase, completed,
                   normalized_transactions, auth_failed, statements_col>>
    /\ UNCHANGED <<cbiVars, transactions, status, bank, tableVars, dbVars, normVars, accountVars,
                   ioVars>>

\* statements_col.delete_one(query); the ids of the collection are unique.
DeleteStatement(r) ==
    /\ deletion[r].pc = "transactions_deleted"
    /\ LET Kept(d) == ~(d._id = deletion[r].statement_id /\ OfUser(d, deletion[r].user_id))
       IN  /\ statements_col' = SelectSeq(statements_col, Kept)
           /\ deletion' = [deletion EXCEPT ![r].pc =
                              IF Len(SelectSeq(statements_col, Kept)) < Len(statements_col)
                              THEN "returned_true" ELSE "returned_false"]
    /\ UNCHANGED <<openai_enabled, advisory, documents, phase, completed,
                   normalized_transactions, auth_failed, transactions_col>>
    /\ UNCHANGED <<cbiVars, transactions, status, bank, tableVars, dbVars, normVars, accountVars,
                   ioVars>>

\* "except Exception as e: ... raise": a call of the driver fails, the deletion
\* stops where it stands.
DeleteRaises(r) ==
    /\ deletion[r].pc \in {"found", "transactions_deleted"}
    /\ deletion' = [deletion EXCEPT ![r].pc = "raised"]
    /\ UNCHANGED <<openai_enabled, advisory, documents, phase, completed,
                   normalized_transactions, auth_failed, statements_col, transactions_col>>
    /\ UNCHANGED <<cbiVars, transactions, status, bank, tableVars, dbVars, normVars, accountVars,
                   ioVars>>

\* The JSON file of the model, as batch_processor.py writes it.
JsonFile ==
    [ bank_name |-> "Central Bank of India", path_upper |-> "OUTPUT/STMT.JSON",
      account_number |-> "3216549870", account_holder |-> <<"TEJAL", "RAUT">>,
      transactions |->
         << [ original |-> NeftRow,
              normalized |-> normalize_transaction(NeftRow.description, NeftRow.debit,
                                                   NeftRow.credit, FALSE, NoResponse) ] >> ]

\* The rows of upload u normalised while the advisory service refuses every call,
\* in the order of the rows.
RuleOnlyRun(u, doc) ==
    [ i \in 1..(IF Len(doc.transactions) < max_txns THEN Len(doc.transactions) ELSE max_txns)
        |-> [ idx |-> i, original |-> doc.transactions[i],
              normalized |-> normalize_transaction(
                                 doc.transactions[i].description, doc.transactions[i].debit,
                                 doc.transactions[i].credit, TRUE,
                                 Response("unauthorized", "", "", "", "")) ] ]

\* The short and the long PDF have been uploaded and normalised; the import
\* script has read its file; nothing is in the collections yet.
InitStore ==
    /\ documents = [j \in Uploads \cup Imports |->
                       IF j = "u1" THEN ShortPdf ELSE IF j = "u2" THEN LongPdf ELSE JsonFile]
    /\ phase = [j \in Uploads \cup Imports |-> IF j \in Uploads THEN "normalized" ELSE "read"]
    /\ completed = [u \in Uploads |-> RuleOnlyRun(u, documents[u])]
    /\ normalized_transactions =
          [u \in Uploads |-> results(completed[u], Len(completed[u]))]
    /\ auth_failed = [u \in Uploads |-> TRUE]
    /\ statements_col = <<>>
    /\ transactions_col = <<>>
    /\ deletion = [r \in Requests |-> [pc |-> "idle", statement_id |-> "", user_id |-> ""]]
    /\ AccountIdle
    /\ IoIdle
    /\ openai_enabled = TRUE
    /\ advisory = Response("unauthorized", "", "", "", "")
    /\ text = <<>>
    /\ suggested_result = NoResult
    /\ debit_amount = 0
    /\ credit_amount = 0
    /\ final_result = NoResult
    /\ state = WAIT_FOR_TRANSACTION
    /\ current_transaction = NoTxn
    /\ transactions = <<>>
    /\ status = "idle"
    /\ anchors = <<>>
    /\ described = FALSE
    /\ undescribed = FALSE
    /\ bank = "HDFC Bank"
    /\ consumed = 0
    /\ sources = <<>>
    /\ genuine = <<>>
    /\ statements = 0
    /\ stored = <<>>

NextStore ==
    \/ \E u \in Uploads : InsertStatement(u)
    \/ \E u \in Uploads : InsertTransactions(u)
    \/ \E j \in Imports : ImportStatement(j)
    \/ \E j \in Imports : ImportTransactions(j)
    \/ \E u \in Uploads : InsertManyRaises(u)
    \/ \E j \in Imports : ImportInsertManyRaises(j)
    \/ \E r \in Requests : \E id \in Uploads \cup Imports : \E user \in Users :
          FindStatement(r, id, user)
    \/ \E r \in Requests : DeleteTransactions(r)
    \/ \E r \in Requests : DeleteStatement(r)
    \/ \E r \in Requests : DeleteRaises(r)

SpecStore == InitStore /\ [][NextStore]_vars

\* ------------------------------------------------------------------------
\* pdf_extractor.py extract_account_info.  A text the code tests for emptiness
\* is "" when it is None or empty; a holder name is the sequence of its words,
\* <<>> when it is None or empty.
\* ------------------------------------------------------------------------

\* validate_and_clean_account_holder_name(name): the title and the unwanted words
\* are removed; fewer than two words left, or a bank word inside the name, is None.
validate_and_clean_account_holder_name(name) ==
    LET untitled == IF name # <<>> /\ name[1] \in {"MR.", "MRS.", "MS.", "MISS.", "M/S.", "M/S"}
                    THEN Tail(name) ELSE name
        Wanted(word) ==
            /\ word \notin {"HOME", "ACCOUNT", "BANK", "STATEMENT", "OF", "INDIA", "LIMITED",
                            "LTD", "DETAILS", "CUSTOMER", "HOLDER", "NAME", "BRANCH", "IFSC",
                            "CODE"}
            /\ Len(word) > 1
        cleaned_words == SelectSeq(untitled, Wanted)
    IN  IF Len(cleaned_words) < 2 THEN <<>>
        ELSE IF InAny({"STATEMENT", "BANK", "ACCOUNT", "DETAILS"}, Join(cleaned_words)) THEN <<>>
        ELSE cleaned_words

\* The bank-specific extractor has filled account_info from the text of the pages.
\* extract_central_bank_account_info takes the holder from the header line next to
\* "STATEMENT OF ACCOUNT" and, when there is none, from the name patterns it
\* searches in the whole text.
bank_account_info(p) ==
    [ account_number |-> p.header_number,
      account_holder |-> IF p.bank = "Central Bank of India" /\ p.header_holder = <<>>
                         THEN validate_and_clean_account_holder_name(p.text_holder)
                         ELSE p.header_holder,
      bank_name |-> p.bank, raised |-> FALSE ]

\* "If still missing fields": extract_missing_account_info_from_tables is called
\* when a field is missing (for Central Bank the holder does not count) and fills
\* the account number and the holder that are missing.
extract_missing_account_info_from_tables(p, a) ==
    IF \/ a.account_number = ""
       \/ a.account_holder = <<>> /\ p.bank # "Central Bank of India"
       \/ p.other_missing
    THEN [ a EXCEPT
             !.account_number = IF @ = "" THEN p.table_number ELSE @,
             !.account_holder = IF @ = <<>>
                                THEN validate_and_clean_account_holder_name(p.table_holder)
                                ELSE @ ]
    ELSE a

\* The holder is validated, then the fallbacks to the file name and to the
\* aggressive account-number search; the first two are skipped for Central Bank.
final_fallbacks(p, a) ==
    LET cleaned == IF a.account_holder # <<>> /\ p.bank # "Central Bank of India"
                   THEN validate_and_clean_account_holder_name(a.account_holder)
                   ELSE a.account_holder
        holder == IF p.bank # "Central Bank of India" /\ cleaned = <<>>
                  THEN p.filename_holder ELSE cleaned
    IN  [ a EXCEPT !.account_holder = holder,
                   !.account_number = IF @ = "" THEN p.aggressive_number ELSE @ ]

\* validate_and_ensure_required_fields(account_info, ...): the dictionary is
\* changed in place; raised tells that it ended with ValueError.
validate_and_ensure_required_fields(p, a) ==
    IF a.account_number = "" /\ p.aggressive_number = "" THEN [a EXCEPT !.raised = TRUE]
    ELSE LET numbered == [a EXCEPT !.account_number = IF @ = "" THEN p.aggressive_number ELSE @]
         IN  IF numbered.account_holder # <<>> THEN numbered
             ELSE IF p.filename_holder # <<>>
             THEN [numbered EXCEPT !.account_holder = p.filename_holder]
             ELSE IF p.aggressive_holder # <<>>
             THEN [numbered EXCEPT !.account_holder = p.aggressive_holder]
             ELSE [numbered EXCEPT !.raised = TRUE]

\* extract_account_info(pdf_path): a PDF without pages returns the empty
\* dictionary; an exception of the body is printed by "except Exception" and the
\* dictionary is returned as it stands.
extract_account_info(p) ==
    IF ~p.pages
    THEN [ account_number |-> "", account_holder |-> <<>>, bank_name |-> "None",
           raised |-> FALSE ]
    ELSE validate_and_ensure_required_fields(
             p, final_fallbacks(
                    p, extract_missing_account_info_from_tables(p, bank_account_info(p))))

\* What the extraction steps can find in the PDFs of the model.
AccountNumbers == {"", "50100123456789"}
HolderNames == { <<>>, <<"MR.", "RAVI", "KUMAR">>, <<"RAVI">>, <<"SUNIL", "BANKAR">> }
AccountPdfs ==
    [ pages : BOOLEAN, bank : {"HDFC Bank", "Central Bank of India"},
      other_missing : BOOLEAN,
      header_number : AccountNumbers, header_holder : HolderNames,
      text_holder : {<<>>, <<"AMIT", "SHAH">>},
      table_number : AccountNumbers, table_holder : {<<>>, <<"RAVI">>, <<"RAVI", "KUMAR">>},
      filename_holder : {<<>>, <<"TEJAL", "RAUT">>},
      aggressive_number : AccountNumbers,
      aggressive_holder : {<<>>, <<"TEJAL", "RAUT">>} ]

\* process_pdf_to_mongodb, Step 1: account_info = extract_account_info(pdf_path).
ExtractAccountInfo ==
    /\ account_pc = "start"
    /\ account_info' = extract_account_info(pdf)
    /\ account_pc' = "returned"
    /\ UNCHANGED <<pdf, openai_enabled, advisory, documents, phase, completed,
                   normalized_transactions, auth_failed, statements_col, transactions_col,
                   deletion>>
    /\ UNCHANGED <<cbiVars, transactions, status, bank, tableVars, dbVars, normVars,
                   ioVars>>

\* process_pdf_to_mongodb, Steps 2 to 6 for a PDF in which transactions are found:
\* the statement document is built from account_info and inserted.
StoreAccount ==
    /\ account_pc = "returned"
    /\ pdf.pages
    /\ statements_col' =
          Append(statements_col,
                 WithUser(create_bank_statement_doc(
                              "u1", detect_bank_type_from_name(account_info.bank_name),
                              account_info, max_txns),
                          "alice"))
    /\ account_pc' = "stored"
    /\ UNCHANGED <<pdf, account_info, openai_enabled, advisory, documents, phase, completed,
                   normalized_transactions, auth_failed, transactions_col, deletion>>
    /\ UNCHANGED <<cbiVars, transactions, status, bank, tableVars, dbVars, normVars,
                   ioVars>>

InitAccount ==
    /\ pdf \in AccountPdfs
    /\ account_info = <<>>
    /\ account_pc = "start"
    /\ IoIdle
    /\ documents = <<>>
    /\ phase = <<>>
    /\ completed = <<>>
    /\ normalized_transactions = <<>>
    /\ auth_failed = <<>>
    /\ statements_col = <<>>
    /\ transactions_col = <<>>
    /\ deletion = <<>>
    /\ openai_enabled = FALSE
    /\ advisory = NoResponse
    /\ text = <<>>
    /\ suggested_result = NoResult
    /\ debit_amount = 0
    /\ credit_amount = 0
    /\ final_result = NoResult
    /\ state = WAIT_FOR_TRANSACTION
    /\ current_transaction = NoTxn
    /\ transactions = <<>>
    /\ status = "idle"
    /\ anchors = <<>>
    /\ described = FALSE
    /\ undescribed = FALSE
    /\ bank = pdf.bank
    /\ consumed = 0
    /\ sources = <<>>
    /\ genuine = <<>>
    /\ statements = 0
    /\ stored = <<>>

NextAccount ==
    \/ ExtractAccountInfo
    \/ StoreAccount

SpecAccount == InitAccount /\ [][NextAccount]_vars

\* ------------------------------------------------------------------------
\* pdf_extractor.py detect_bank.  A text is the sequence of its words, in upper
\* case as text.upper() makes it; two words that follow each other are separated
\* by one space, and the token "NL" between two words is a line break.
\* ------------------------------------------------------------------------

NotBreak(tok) == tok # "NL"

\* re.search of the words ph with \s+ between them.
Spaced(t, ph) == Phrase(SelectSeq(t, NotBreak), ph)

\* s in text_upper, for s with no space in it.
Contains(t, s) == \E i \in 1..Len(t) : In(s, t[i])

\* [A-Z]{4}0[A-Z0-9]{6}: the routing codes of the model.
IsIfscCode(tok) == tok \in {"CBIN0280001", "UBIN0530001", "BKID0001234", "HDFC0001234"}

\* The code after the first 'IFSC' or 'IFSC CODE' that is followed by one, or "None":
\* re.search(r'IFSC[:\s]*(?:CODE)?[:\s]*([A-Z]{4}0[A-Z0-9]{6})', text_upper).
ifsc_match(t) ==
    LET w == SelectSeq(t, NotBreak)
        At(i) == /\ w[i] = "IFSC"
                 /\ \/ i + 1 <= Len(w) /\ IsIfscCode(w[i + 1])
                    \/ i + 2 <= Len(w) /\ w[i + 1] = "CODE" /\ IsIfscCode(w[i + 2])
    IN  IF \E i \in 1..Len(w) : At(i)
        THEN LET i == CHOOSE i \in 1..Len(w) : At(i) /\ \A j \in 1..(i - 1) : ~At(j)
             IN  IF IsIfscCode(w[i + 1]) THEN w[i + 1] ELSE w[i + 2]
        ELSE "None"

\* ifsc_bank_map of detect_bank, for the prefixes of the routing codes of the model.
ifsc_bank_map(ifsc_prefix) ==
    CASE ifsc_prefix = "SBIN" -> "State Bank of India"
      [] ifsc_prefix = "BKID" -> "Bank of India"
      [] ifsc_prefix = "UTIB" -> "Axis Bank"
      [] ifsc_prefix = "HDFC" -> "HDFC Bank"
      [] ifsc_prefix = "CBIN" -> "Central Bank of India"
      [] ifsc_prefix = "UBIN" -> "Union Bank of India"
      [] OTHER -> "None"

\* Strategy 4, any_bank: the words before the first BANK that has a word before it,
\* title-cased and followed by " Bank"; the words of the model are letters except
\* the routing codes, which the pattern does not cross.
any_bank(t) ==
    LET w == SelectSeq(t, NotBreak)
        i == CHOOSE i \in 2..Len(w) :
                 /\ w[i] = "BANK" /\ ~IsIfscCode(w[i - 1])
                 /\ \A j \in 2..(i - 1) : ~(w[j] = "BANK" /\ ~IsIfscCode(w[j - 1]))
        from == IF \E j \in 1..(i - 1) : IsIfscCode(w[j])
                THEN 1 + CHOOSE j \in 1..(i - 1) :
                             IsIfscCode(w[j]) /\ \A k \in (j + 1)..(i - 1) : ~IsIfscCode(w[k])
                ELSE 1
    IN  TitleWords(SubSeq(w, from, i - 1)) \o " Bank"

\* re.search(r'(?<!UNION\s)BANK\s+OF\s+INDIA', text_upper)
bank_of_india_not_after_union(t) ==
    \E i \in 1..Len(t) :
        /\ t[i] = "BANK"
        /\ Len(SelectSeq(SubSeq(t, i, Len(t)), NotBreak)) >= 3
        /\ SubSeq(SelectSeq(SubSeq(t, i, Len(t)), NotBreak), 1, 3) = <<"BANK", "OF", "INDIA">>
        /\ ~(i > 1 /\ t[i - 1] = "UNION")
        /\ ~(i > 2 /\ t[i - 1] = "NL" /\ t[i - 2] = "UNION")

\* detect_bank(text), strategies 1 to 4; the boi_match branch of strategy 4 needs a
\* BANK OF INDIA that strategy 2 has not taken and so is never entered.
detect_bank(t) ==
    IF ifsc_match(t) # "None" /\ ifsc_bank_map(SubSeq(ifsc_match(t), 1, 4)) # "None"
    THEN ifsc_bank_map(SubSeq(ifsc_match(t), 1, 4))
    ELSE IF \/ Spaced(t, <<"CENTRAL", "BANK", "OF", "INDIA">>)
            \/ Spaced(t, <<"CENTRAL", "BANK">>)
            \/ Word(t, "CBI")
            \/ Phrase(t, <<"CENTRAL", "BANK">>) /\ Contains(t, "CBIN")
    THEN "Central Bank of India"
    ELSE IF \/ Phrase(t, <<"STATE", "BANK", "OF", "INDIA">>)
            \/ /\ Word(t, "SBI") /\ ~Phrase(t, <<"BANK", "OF", "INDIA">>)
               /\ Phrase(t, <<"STATE", "BANK">>)
    THEN "State Bank of India"
    ELSE IF \/ Spaced(t, <<"UNION", "BANK", "OF", "INDIA">>)
            \/ Spaced(t, <<"UNION", "BANK">>)
            \/ Word(t, "UBI")
            \/ Phrase(t, <<"UNION", "BANK">>) /\ Contains(t, "UBIN")
    THEN "Union Bank of India"
    ELSE IF \/ /\ bank_of_india_not_after_union(t)
               /\ ~Phrase(t, <<"STATE", "BANK", "OF", "INDIA">>)
               /\ ~Phrase(t, <<"CENTRAL", "BANK">>)
            \/ /\ Word(t, "BOI") /\ ~Contains(t, "AXIS") /\ ~Contains(t, "STATE")
               /\ ~Contains(t, "CENTRAL") /\ ~Contains(t, "UNION")
    THEN "Bank of India"
    ELSE IF Phrase(t, <<"AXIS", "BANK">>) \/ (Word(t, "AXIS") /\ Contains(t, "UTIB"))
    THEN "Axis Bank"
    ELSE IF Phrase(t, <<"HDFC", "BANK">>) THEN "HDFC Bank"
    ELSE IF Phrase(t, <<"ICICI", "BANK">>) \/ Word(t, "ICICI") THEN "ICICI Bank"
    ELSE IF Spaced(t, <<"PUNJAB", "NATIONAL", "BANK">>) \/ Word(t, "PNB")
    THEN "Punjab National Bank"
    ELSE IF Spaced(t, <<"CANARA", "BANK">>) THEN "Canara Bank"
    ELSE IF Spaced(t, <<"BANK", "OF", "BARODA">>) \/ Word(t, "BOB") THEN "Bank of Baroda"
    ELSE IF Spaced(t, <<"INDIAN", "OVERSEAS", "BANK">>) \/ Word(t, "IOB")
    THEN "Indian Overseas Bank"
    ELSE IF \E i \in 2..Len(SelectSeq(t, NotBreak)) :
               /\ SelectSeq(t, NotBreak)[i] = "BANK"
               /\ ~IsIfscCode(SelectSeq(t, NotBreak)[i - 1])
    THEN any_bank(t)
    ELSE "Bank (Unidentified)"

\* A page of a statement is a sequence of phrases, each a sequence of words; its text
\* is the words one after the other.
RECURSIVE page_text(_)
page_text(page) ==
    IF page = <<>> THEN <<>> ELSE Head(page) \o page_text(Tail(page))

\* What the pages of the model print.
BankPhrases ==
    << <<"CENTRAL", "BANK", "OF", "INDIA">>, <<"CENTRAL", "BANK", "NL", "OF", "INDIA">>,
       <<"UNION", "BANK", "OF", "INDIA">>, <<"UNION", "NL", "BANK", "OF", "INDIA">>,
       <<"BANK", "OF", "INDIA">>, <<"BOI">>, <<"CBIN0280001">>, <<"UBIN0530001">>,
       <<"IFSC", "CBIN0280001">>, <<"IFSC", "CODE", "BKID0001234">>,
       <<"IFSC", "NL", "HDFC0001234">>, <<"HDFC", "BANK">>, <<"KOTAK", "BANK">> >>

\* extract_account_info, the bank name: detect_bank of the text of the first pages,
\* each after a line break.  The pages of the model are printed in upper case, so the
\* header override, which looks for 'of India', does not apply; they have no tables.
account_bank_name(p) ==
    detect_bank((IF p.first_page = <<>> THEN <<>> ELSE <<"NL">> \o page_text(p.first_page))
                \o (IF p.second_page = <<>> THEN <<>>
                    ELSE <<"NL">> \o page_text(p.second_page)))

\* extract_transactions: bank = detect_bank(first_page_text)
extractor_bank(p) == detect_bank(page_text(p.first_page))

\* One more phrase is printed on the first page.
PrintFirstPage(k) ==
    /\ account_pc = "start"
    /\ pdf.second_page = <<>>
    /\ Len(pdf.first_page) < MaxKeywords
    /\ pdf' = [pdf EXCEPT !.first_page = Append(@, BankPhrases[k])]
    /\ UNCHANGED <<account_info, account_pc, openai_enabled, advisory, documents, phase,
                   completed, normalized_transactions, auth_failed, statements_col,
                   transactions_col, deletion>>
    /\ UNCHANGED <<cbiVars, transactions, status, bank, tableVars, dbVars, normVars,
                   ioVars>>

\* The second page prints one phrase.
PrintSecondPage(k) ==
    /\ account_pc = "start"
    /\ pdf.second_page = <<>>
    /\ pdf' = [pdf EXCEPT !.second_page = <<BankPhrases[k]>>]
    /\ UNCHANGED <<account_info, account_pc, openai_enabled, advisory, documents, phase,
                   completed, normalized_transactions, auth_failed, statements_col,
                   transactions_col, deletion>>
    /\ UNCHANGED <<cbiVars, transactions, status, bank, tableVars, dbVars, normVars,
                   ioVars>>

\* process_pdf_to_mongodb, steps 1, 2 and 6: extract_account_info and
\* extract_transactions read the PDF, detect_bank_type_from_name gives the bank type
\* and the statement is inserted with it.
IdentifyBank ==
    /\ account_pc = "start"
    /\ account_info' = [ bank_name |-> account_bank_name(pdf),
                         account_number |-> "", account_holder |-> <<>> ]
    /\ bank' = extractor_bank(pdf)
    /\ statements_col' =
          <<create_bank_statement_doc(
                "u1", detect_bank_type_from_name(account_bank_name(pdf)), account_info', 1)>>
    /\ account_pc' = "stored"
    /\ UNCHANGED <<pdf, openai_enabled, advisory, documents, phase, completed,
                   normalized_transactions, auth_failed, transactions_col, deletion>>
    /\ UNCHANGED <<cbiVars, transactions, status, tableVars, dbVars, normVars,
                   ioVars>>

InitBank ==
    /\ pdf = [ first_page |-> <<>>, second_page |-> <<>> ]
    /\ account_info = <<>>
    /\ account_pc = "start"
    /\ IoIdle
    /\ documents = <<>>
    /\ phase = <<>>
    /\ completed = <<>>
    /\ normalized_transactions = <<>>
    /\ auth_failed = <<>>
    /\ statements_col = <<>>
    /\ transactions_col = <<>>
    /\ deletion = <<>>
    /\ openai_enabled = FALSE
    /\ advisory = NoResponse
    /\ text = <<>>
    /\ suggested_result = NoResult
    /\ debit_amount = 0
    /\ credit_amount = 0
    /\ final_result = NoResult
    /\ state = WAIT_FOR_TRANSACTION
    /\ current_transaction = NoTxn
    /\ transactions = <<>>
    /\ status = "idle"
    /\ anchors = <<>>
    /\ described = FALSE
    /\ undescribed = FALSE
    /\ bank = ""
    /\ consumed = 0
    /\ sources = <<>>
    /\ genuine = <<>>
    /\ statements = 0
    /\ stored = <<>>

NextBank ==
    \/ \E k \in 1..Len(BankPhrases) : PrintFirstPage(k)
    \/ \E k \in 1..Len(BankPhrases) : PrintSecondPage(k)
    \/ IdentifyBank

SpecBank == InitBank /\ [][NextBank]_vars

\* ------------------------------------------------------------------------
\* batch_processor.py process_bank and insert_bank_statements.py process_directory:
\* the loops over the files of a batch
\* ------------------------------------------------------------------------

\* What processing a PDF of a batch runs into: nothing, an extraction that finds no
\* transaction, or an exception in the extraction, in build_json_structure or in the
\* writing of the JSON file.
PdfOutcomes == {"ok", "no_transactions", "extract_raises", "build_raises", "save_raises"}

\* What importing a JSON file runs into: nothing, or an exception when the file is
\* read or when a document is inserted.
JsonOutcomes == {"ok", "read_raises", "insert_raises"}

\* The number of files of a batch.
MaxFiles == 3

\* A process_single_pdf whose outer try lets the exception of the extraction through.
ExtractionUncaught(outcome) ==
    IF outcome = "ok" THEN "True"
    ELSE IF outcome = "extract_raises" THEN "raised" ELSE "False"

\* process_single_pdf(pdf_path, output_dir): True when the JSON file is saved; no
\* transactions returns False, the inner try blocks catch the exceptions of
\* build_json_structure and of the save and return False, the outer try block
\* catches every other exception and returns False.
process_single_pdf(outcome) ==
    IF outcome = "ok" THEN "True" ELSE "False"

\* process_json_file(file_path, client): the result dictionary, or the exception
\* goes to the caller.
process_json_file(outcome) ==
    IF outcome = "ok" THEN "result" ELSE "raised"

\* The batch before its first file.
NewBatch(kind, files) ==
    [ kind |-> kind, files |-> files, next |-> 1,
      attempts |-> [i \in 1..Len(files) |-> 0],
      reported |-> [i \in 1..Len(files) |-> ""],
      success_count |-> 0, pc |-> "running" ]

\* One pass of "for pdf_path in pdf_files" of process_bank: an exception that leaves
\* process_single_pdf leaves the loop.
ProcessBankPdf ==
    /\ batch.kind = "pdf"
    /\ batch.pc = "running"
    /\ batch.next <= Len(batch.files)
    /\ LET i == batch.next
           r == process_single_pdf(batch.files[i])
       IN  batch' = IF r = "raised"
                    THEN [batch EXCEPT !.attempts[i] = @ + 1, !.pc = "aborted"]
                    ELSE [batch EXCEPT !.attempts[i] = @ + 1, !.reported[i] = r,
                                       !.success_count = @ + (IF r = "True" THEN 1 ELSE 0),
                                       !.next = @ + 1]
    /\ UNCHANGED <<upload_folder, upload_requests>>
    /\ UNCHANGED <<cbiVars, transactions, status, bank, tableVars, dbVars, normVars>>
    /\ UNCHANGED <<openai_enabled, advisory, documents, phase, completed,
                   normalized_transactions, auth_failed, statements_col, transactions_col,
                   deletion, accountVars>>

\* One pass of "for json_file in json_files" of process_directory: the result is
\* appended, or the except branch prints the error and continues.
ProcessDirectoryJson ==
    /\ batch.kind = "json"
    /\ batch.pc = "running"
    /\ batch.next <= Len(batch.files)
    /\ LET i == batch.next
           r == process_json_file(batch.files[i])
       IN  batch' = [batch EXCEPT !.attempts[i] = @ + 1,
                                  !.reported[i] = IF r = "raised" THEN "ERROR" ELSE r,
                                  !.success_count = @ + (IF r = "raised" THEN 0 ELSE 1),
                                  !.next = @ + 1]
    /\ UNCHANGED <<upload_folder, upload_requests>>
    /\ UNCHANGED <<cbiVars, transactions, status, bank, tableVars, dbVars, normVars>>
    /\ UNCHANGED <<openai_enabled, advisory, documents, phase, completed,
                   normalized_transactions, auth_failed, statements_col, transactions_col,
                   deletion, accountVars>>

\* The loop has read every file: process_bank prints the count, process_directory
\* returns the results.
BatchCompleted ==
    /\ batch.pc = "running"
    /\ batch.next > Len(batch.files)
    /\ batch' = [batch EXCEPT !.pc = "done"]
    /\ UNCHANGED <<upload_folder, upload_requests>>
    /\ UNCHANGED <<cbiVars, transactions, status, bank, tableVars, dbVars, normVars>>
    /\ UNCHANGED <<openai_enabled, advisory, documents, phase, completed,
                   normalized_transactions, auth_failed, statements_col, transactions_col,
                   deletion, accountVars>>

\* Nothing is extracted, normalised or stored by the model of the file handling.
StoreIdle ==
    /\ documents = <<>>
    /\ phase = <<>>
    /\ completed = <<>>
    /\ normalized_transactions = <<>>
    /\ auth_failed = <<>>
    /\ statements_col = <<>>
    /\ transactions_col = <<>>
    /\ deletion = <<>>
    /\ openai_enabled = FALSE
    /\ advisory = NoResponse
    /\ text = <<>>
    /\ suggested_result = NoResult
    /\ debit_amount = 0
    /\ credit_amount = 0
    /\ final_result = NoResult
    /\ state = WAIT_FOR_TRANSACTION
    /\ current_transaction = NoTxn
    /\ transactions = <<>>
    /\ status = "idle"
    /\ anchors = <<>>
    /\ described = FALSE
    /\ undescribed = FALSE
    /\ bank = ""
    /\ consumed = 0
    /\ sources = <<>>
    /\ genuine = <<>>
    /\ statements = 0
    /\ stored = <<>>

InitBatch ==
    /\ batch \in { NewBatch("pdf", files) : files \in [1..MaxFiles -> PdfOutcomes] }
                 \cup { NewBatch("json", files) : files \in [1..MaxFiles -> JsonOutcomes] }
    /\ upload_folder = <<>>
    /\ upload_requests = <<>>
    /\ AccountIdle
    /\ StoreIdle

NextBatch ==
    \/ ProcessBankPdf
    \/ ProcessDirectoryJson
    \/ BatchCompleted

SpecBatch == InitBatch /\ [][NextBatch]_vars

\* ------------------------------------------------------------------------
\* validate_global_rules_v2.py and validate_transport_rules.py: the validation tables
\* ------------------------------------------------------------------------

\* test_cases of test_categorization_rules: the descriptions whose words are
\* separated by spaces, as words, and the category expected for each.
test_cases ==
    << [description |-> <<"POS", "PURCHASE", "AT", "MORE", "STORE">>, expected_category |-> "groceries"],
       [description |-> <<"PURCHASE", "AT", "MORE">>, expected_category |-> "groceries"],
       [description |-> <<"RELIANCE", "JIO", "RECHARGE">>, expected_category |-> "bills_utilities"],
       [description |-> <<"IRCTC", "BOOKING">>, expected_category |-> "travel"],
       [description |-> <<"FASTAG", "RECHARGE">>, expected_category |-> "travel"],
       [description |-> <<"APOLLO", "PHARMACY">>, expected_category |-> "healthcare"],
       [description |-> <<"FORTIS", "HOSPITAL", "BILL">>, expected_category |-> "healthcare"],
       [description |-> <<"1MG", "TECHNOLOGIES">>, expected_category |-> "healthcare"],
       [description |-> <<"PAYMENT", "TO", "MEDPLUS">>, expected_category |-> "healthcare"],
       [description |-> <<"DPS", "SCHOOL", "FEES">>, expected_category |-> "education"],
       [description |-> <<"COLLEGE", "ADMISSION", "FEE">>, expected_category |-> "education"],
       [description |-> <<"BESCOM", "BILL", "PAYMENT">>, expected_category |-> "bills_utilities"],
       [description |-> <<"ACT", "HATHWAY", "INTERNET">>, expected_category |-> "bills_utilities"],
       [description |-> <<"SMS", "CHARGES", "FOR", "Q3">>, expected_category |-> "bank_charges"],
       [description |-> <<"ANNUAL", "CHARGES", "DEBIT", "CARD">>, expected_category |-> "bank_charges"],
       [description |-> <<"PAYMENT", "TO", "LOCAL", "KIRANA", "STORE">>, expected_category |-> "groceries"],
       [description |-> <<"PURCHASE", "AT", "LOCAL", "KIRANA">>, expected_category |-> "groceries"],
       [description |-> <<"CITY", "BOOK", "STORE">>, expected_category |-> "education"],
       [description |-> <<"BOOK", "STORE", "PAYMENT">>, expected_category |-> "education"],
       [description |-> <<"LOOKS", "SALON">>, expected_category |-> "healthcare"],
       [description |-> <<"SALON", "SERVICES">>, expected_category |-> "healthcare"],
       [description |-> <<"YOUTUBE", "PREMIUM", "SUBSCRIPTION">>, expected_category |-> "entertainment"],
       [description |-> <<"YOUTUBE", "PREMIUM">>, expected_category |-> "entertainment"] >>

\* test_cases of test_rules, the same way.
transport_test_cases ==
    << [description |-> <<"IRCTC", "RAILWAY", "BOOKING">>, expected_category |-> "travel"],
       [description |-> <<"NETC", "FASTAG", "RECHARGE">>, expected_category |-> "travel"],
       [description |-> <<"STARBUCKS", "COFFEE">>, expected_category |-> "food_dining"] >>

ValidationTable == test_cases \o transport_test_cases

\* The suggestions the validation hands to apply_global_rules: the category is
\* transfer, the direction debit; the scripts use merchant 'Unknown' and channel 'UPI'.
TransferSuggestions ==
    { [ transaction_type |-> "debit", merchant |-> m, channel |-> c,
        debit_or_credit |-> "debit", category |-> "transfer" ] :
      m \in {"Unknown", "Some Shop"}, c \in {"UPI", "OTHER", "CARD"} }

\* The debit of 100.0, in paise.
ValidationDebit == 10000

InitValidation ==
    /\ \E k \in 1..Len(ValidationTable) : text = ValidationTable[k].description
    /\ suggested_result \in TransferSuggestions
    /\ debit_amount = ValidationDebit
    /\ credit_amount = 0
    /\ final_result = NoResult
    /\ state = WAIT_FOR_TRANSACTION
    /\ current_transaction = NoTxn
    /\ transactions = <<>>
    /\ status = "idle"
    /\ anchors = <<>>
    /\ described = FALSE
    /\ undescribed = FALSE
    /\ bank = "HDFC Bank"
    /\ consumed = 0
    /\ sources = <<>>
    /\ genuine = <<>>
    /\ statements = 0
    /\ stored = <<>>
    /\ openai_enabled = FALSE
    /\ advisory = NoResponse
    /\ PipelineIdle

\* result = apply_global_rules(desc, suggested, 100.0)
NextValidation == ApplyGlobalRules

SpecValidation == InitValidation /\ [][NextValidation]_vars

\* ------------------------------------------------------------------------
\* routes/upload.py upload_pdf: the uploaded file, from save to removal
\* ------------------------------------------------------------------------

\* secure_filename(file.filename) of the uploads of the model.
FileNames == {"statement.pdf", "hdfc.pdf"}

\* upload_requests' with the fields of request r set as given.
Advance(r, pc, account_from, transactions_from) ==
    [upload_requests EXCEPT ![r] = [@ EXCEPT !.pc = pc, !.account_from = account_from,
                                             !.transactions_from = transactions_from]]

\* save_uploaded_file(file, UPLOAD_FOLDER): file.save writes the bytes of the request
\* to UPLOAD_FOLDER/filename, over a file of that name if there is one.
SaveUploadedFile(r) ==
    /\ upload_requests[r].pc = "received"
    /\ upload_folder' = [upload_folder EXCEPT ![upload_requests[r].filename] = r]
    /\ upload_requests' = Advance(r, "saved", "", "")
    /\ UNCHANGED <<batch, statements_col>>
    /\ UNCHANGED <<cbiVars, transactions, status, bank, tableVars, dbVars, normVars>>
    /\ UNCHANGED <<openai_enabled, advisory, documents, phase, completed,
                   normalized_transactions, auth_failed, transactions_col, deletion,
                   accountVars>>

\* process_pdf_to_mongodb, step 1, first call: extract_account_info(pdf_path) opens
\* the file at the path.  When there is none the exception is caught inside
\* extract_account_info, which returns the dictionary with no field set.
ReadAccountInfo(r) ==
    /\ upload_requests[r].pc = "saved"
    /\ upload_requests' =
          Advance(r, "account_read",
                  IF upload_folder[upload_requests[r].filename] = "absent" THEN "none"
                  ELSE upload_folder[upload_requests[r].filename], "")
    /\ UNCHANGED <<batch, upload_folder, statements_col>>
    /\ UNCHANGED <<cbiVars, transactions, status, bank, tableVars, dbVars, normVars>>
    /\ UNCHANGED <<openai_enabled, advisory, documents, phase, completed,
                   normalized_transactions, auth_failed, transactions_col, deletion,
                   accountVars>>

\* process_pdf_to_mongodb, step 1, second call: extract_transactions(pdf_path) opens
\* the file again; when there is none the exception goes to upload_pdf.
ReadTransactions(r) ==
    /\ upload_requests[r].pc = "account_read"
    /\ upload_requests' =
          IF upload_folder[upload_requests[r].filename] = "absent"
          THEN Advance(r, "failed", upload_requests[r].account_from, "")
          ELSE Advance(r, "extracted", upload_requests[r].account_from,
                       upload_folder[upload_requests[r].filename])
    /\ UNCHANGED <<batch, upload_folder, statements_col>>
    /\ UNCHANGED <<cbiVars, transactions, status, bank, tableVars, dbVars, normVars>>
    /\ UNCHANGED <<openai_enabled, advisory, documents, phase, completed,
                   normalized_transactions, auth_failed, transactions_col, deletion,
                   accountVars>>

\* process_pdf_to_mongodb, steps 2 to 7: the statement is built from the account
\* info and the transactions read, with the user of the request, and inserted.
StoreUpload(r) ==
    /\ upload_requests[r].pc = "extracted"
    /\ statements_col' =
          Append(statements_col,
                 [ _id |-> r, userId |-> upload_requests[r].user_id,
                   fileName |-> upload_requests[r].filename,
                   account_from |-> upload_requests[r].account_from,
                   transactions_from |-> upload_requests[r].transactions_from ])
    /\ upload_requests' = Advance(r, "stored", upload_requests[r].account_from,
                                  upload_requests[r].transactions_from)
    /\ UNCHANGED <<batch, upload_folder>>
    /\ UNCHANGED <<cbiVars, transactions, status, bank, tableVars, dbVars, normVars>>
    /\ UNCHANGED <<openai_enabled, advisory, documents, phase, completed,
                   normalized_transactions, auth_failed, transactions_col, deletion,
                   accountVars>>

\* upload_pdf after process_pdf_to_mongodb has returned or raised:
\* os.remove(pdf_path), whose exception is swallowed, then the response.
RemoveUploadedFile(r) ==
    /\ upload_requests[r].pc \in {"stored", "failed"}
    /\ upload_folder' = [upload_folder EXCEPT ![upload_requests[r].filename] = "absent"]
    /\ upload_requests' = Advance(r, "responded", upload_requests[r].account_from,
                                  upload_requests[r].transactions_from)
    /\ UNCHANGED <<batch, statements_col>>
    /\ UNCHANGED <<cbiVars, transactions, status, bank, tableVars, dbVars, normVars>>
    /\ UNCHANGED <<openai_enabled, advisory, documents, phase, completed,
                   normalized_transactions, auth_failed, transactions_col, deletion,
                   accountVars>>

InitUpload ==
    /\ upload_requests \in
          [Requests -> [ filename : FileNames, user_id : Users, pc : {"received"},
                         account_from : {""}, transactions_from : {""} ]]
    /\ upload_folder = [f \in FileNames |-> "absent"]
    /\ batch = <<>>
    /\ AccountIdle
    /\ StoreIdle

NextUpload ==
    \/ \E r \in Requests : SaveUploadedFile(r)
    \/ \E r \in Requests : ReadAccountInfo(r)
    \/ \E r \in Requests : ReadTransactions(r)
    \/ \E r \in Requests : StoreUpload(r)
    \/ \E r \in Requests : RemoveUploadedFile(r)

SpecUpload == InitUpload /\ [][NextUpload]_vars

\* ------------------------------------------------------------------------
\* extract_central_bank_state_machine: the lines collected from a page
\* ------------------------------------------------------------------------

\* What a page prints for a transaction: the value-date line, the reference line and
\* the description line.
PrintedTransactions ==
    { <<a, "UPI RRN 453699188536 .", d>> :
        a \in AnchorLines, d \in {"TRF TO AJIO", "TRF FROM RAVI KUMAR"} }

\* The number of transactions a page prints.
MaxPrinted == 2

\* The lines of at most n printed transactions, one after the other.
RECURSIVE PrintedLines(_)
PrintedLines(n) ==
    IF n = 0 THEN {<<>>}
    ELSE PrintedLines(n - 1)
            \cup { p \o t : p \in PrintedLines(n - 1), t \in PrintedTransactions }

\* The pages of the model: the lines of one or more transactions, which
\* extract_tables gives as rows, one row a line, or extract_text as text lines, or
\* both.
CBPages ==
    { [ printed |-> lines, tables |-> tb, text |-> tx ] :
        lines \in PrintedLines(MaxPrinted) \ {<<>>}, tb \in BOOLEAN, tx \in BOOLEAN }

\* all_lines of a page: the rows of its tables, each joined to a line, then the lines
\* of its text.
all_lines(page) ==
    (IF page.tables THEN page.printed ELSE <<>>) \o (IF page.text THEN page.printed ELSE <<>>)

\* One pass of the loop "for line in all_lines" over the lines of the page.
ReadPageLine ==
    /\ consumed < Len(all_lines(pdf))
    /\ CBPass(all_lines(pdf)[consumed + 1])
    /\ consumed' = consumed + 1
    /\ UNCHANGED <<bank, sources, genuine, dbVars, normVars, runVars>>

\* The loop has read every line of the page.
PageEnd ==
    /\ consumed = Len(all_lines(pdf))
    /\ CBEnd

InitPage ==
    /\ pdf \in { page \in CBPages :
                    /\ page.tables \/ page.text
                    /\ \A i, j \in 1..Len(page.printed) :
                          (i # j /\ value_date_match(page.printed[i]))
                             => page.printed[i] # page.printed[j] }
    /\ account_info = <<>>
    /\ account_pc = "idle"
    /\ state = WAIT_FOR_TRANSACTION
    /\ current_transaction = NoTxn
    /\ transactions = <<>>
    /\ status = "running"
    /\ anchors = <<>>
    /\ described = FALSE
    /\ undescribed = FALSE
    /\ bank = "Central Bank of India"
    /\ consumed = 0
    /\ sources = <<>>
    /\ genuine = <<>>
    /\ statements = 0
    /\ stored = <<>>
    /\ text = <<>>
    /\ suggested_result = NoResult
    /\ debit_amount = 0
    /\ credit_amount = 0
    /\ final_result = NoResult
    /\ openai_enabled = FALSE
    /\ advisory = NoResponse
    /\ documents = <<>>
    /\ phase = <<>>
    /\ completed = <<>>
    /\ normalized_transactions = <<>>
    /\ auth_failed = <<>>
    /\ statements_col = <<>>
    /\ transactions_col = <<>>
    /\ deletion = <<>>
    /\ IoIdle

NextPage ==
    \/ ReadPageLine
    \/ PageEnd

SpecPage == InitPage /\ [][NextPage]_vars

\* ------------------------------------------------------------------------
\* Claims
\* ------------------------------------------------------------------------

\* The raw transactions an extractor has handed to its caller.
Returned == IF status \in {"returned", "stored"} THEN transactions ELSE <<>>

\* C1: every raw transaction an extraction path returns has exactly one of debit and
\* credit greater than zero, and its amount is that value.
C1_ExactlyOneSide ==
    \A i \in 1..Len(Returned) :
        LET t == Returned[i]
        IN  \/ t.debit > 0 /\ t.credit = 0 /\ t.amount = t.debit
            \/ t.credit > 0 /\ t.debit = 0 /\ t.amount = t.credit

\* The digits of a cell.
DigitCount(str) == Len(SelectSeq(Chars(str), LAMBDA c : c \in DIGITS))

\* A token with more than six digits and no decimal point.
IsLongInteger(str) == DigitCount(str) > RefDigits /\ ~HasDecimalPoint(str)

\* C3: no cell with more than six digits and no decimal point is assigned to the
\* debit or the credit of the transaction built from its row.
C3_NoLongIntegerAmount ==
    \A i \in 1..Len(Returned) : \A c \in 1..Len(sources[i]) :
        IsLongInteger(sources[i][c]) =>
            /\ Returned[i].debit # parse_amount_improved(sources[i][c])
            /\ Returned[i].credit # parse_amount_improved(sources[i][c])

\* C4: every row with a date and a genuine monetary amount yields exactly one
\* transaction, in row order: the genuine rows read are the genuine rows that
\* transactions were built from.
C4_NoGenuineRowLost ==
    status \in {"returned", "stored"} => SelectSeq(sources, IsGenuineRow) = genuine

\* A row with a date and a genuine amount became a transaction.
C4_GenuineRowRead ==
    status = "returned" /\ genuine # <<>> /\ SelectSeq(sources, IsGenuineRow) = genuine

\* C5: a run of the CBI line machine that ends without an error returns exactly one
\* transaction for each value-date line, in the order of those lines; while it runs,
\* every value-date line but the last has its transaction in the list and the last
\* one has opened the current transaction.
C5_OnePerAnchor ==
    /\ status = "running" /\ anchors # <<>> =>
          /\ Len(transactions) = Len(anchors) - 1
          /\ current_transaction # NoTxn
          /\ [current_transaction EXCEPT !.description = ""] =
                 NewTransaction(anchors[Len(anchors)])
    /\ Len(Returned) > 0 \/ status \in {"returned", "stored"} =>
          /\ Len(transactions) = Len(anchors)
          /\ \A i \in 1..Len(anchors) :
                [transactions[i] EXCEPT !.description = ""] = NewTransaction(anchors[i])

\* Three value-date lines were read and their three transactions returned.
C5_ThreeAnchorsReturned ==
    bank = "Central Bank of India" /\ status = "returned" /\ Len(anchors) = MaxAnchors
        /\ Len(transactions) = MaxAnchors

\* C6: the CBI line machine returns no transaction with an empty description: when a
\* value-date line is followed by no line with one of the four description patterns
\* before the next value-date line or the end, the extraction raises and returns no list.
C6_NoEmptyDescription ==
    /\ \A i \in 1..Len(Returned) : Returned[i].description # ""
    /\ undescribed => status \in {"running", "raised"}
    /\ undescribed /\ status = "raised" => Returned = <<>>

\* A second value-date line came before any description line, after a first
\* transaction was complete, and the extraction raised.
C6_UndescribedRaised ==
    undescribed /\ status = "raised" /\ Len(anchors) >= 2

\* C7: a CBI statement whose transactions hold two equal descriptions with different
\* debit amounts is rejected before persistence: no statement and no transaction
\* document is written.
C7_DuplicateRejected ==
    bank = "Central Bank of India" /\ DuplicateDescriptions(transactions) =>
        statements = 0 /\ stored = <<>>

\* C2: the direction follows the amounts alone: a row with a debit and no credit ends
\* as a debit whose transaction_type is not credit, a row with a credit and no debit
\* ends as a credit whose transaction_type is not debit, whatever the description
\* and the suggestion.
C2_DirectionFromAmounts ==
    final_result # NoResult =>
        /\ (debit_amount > 0 /\ credit_amount = 0) =>
              /\ final_result.debit_or_credit = "debit"
              /\ final_result.transaction_type # "credit"
        /\ (credit_amount > 0 /\ debit_amount = 0) =>
              /\ final_result.debit_or_credit = "credit"
              /\ final_result.transaction_type # "debit"

\* The rules whose condition the description meets, by their place in the order.
MatchingRules ==
    {n \in 1..Len(RuleOrder) :
        Matches(RuleOrder[n], text, DetectChannel(text, suggested_result.channel))}

\* What the first of them assigns.
FirstMatchEffect ==
    Effect(RuleOrder[CHOOSE n \in MatchingRules : \A o \in MatchingRules : n <= o],
           text, extract_merchant_from_text(text), debit_amount, credit_amount,
           DetectChannel(text, suggested_result.channel))

\* C8: when a description matches two or more rules, the final category, merchant
\* and transaction_type are those of the matching rule that comes first in the
\* order; no later pass replaces them.
C8_FirstMatchWins ==
    (final_result # NoResult /\ Cardinality(MatchingRules) >= 2) =>
        /\ final_result.category = FirstMatchEffect.category
        /\ FirstMatchEffect.merchant # "None" =>
              final_result.merchant = FirstMatchEffect.merchant
        /\ FirstMatchEffect.transaction_type # "None" =>
              final_result.transaction_type = FirstMatchEffect.transaction_type

\* C9: a debit row whose description holds ATM and a cash or withdrawal keyword ends
\* with category cash, channel ATM and merchant "ATM Withdrawal", whatever else the
\* description holds and whatever the suggestion.
C9_ATMWithdrawalIsCash ==
    ( /\ final_result # NoResult
      /\ Word(text, "ATM") /\ HasAny(text, {"CASH", "WDL", "WITHDRAWAL"})
      /\ debit_amount > 0 /\ credit_amount = 0 ) =>
        /\ final_result.category = "cash"
        /\ final_result.channel = "ATM"
        /\ final_result.merchant = "ATM Withdrawal"

\* C10: a description that holds EMI and a transfer rail keyword ends with category
\* emi_loan, for every suggestion and every pair of amounts: the category rules
\* give emi_loan and no safety check changes it.
C10_EMINeverTransfer ==
    ( /\ final_result # NoResult
      /\ Word(text, "EMI") /\ HasAny(text, {"UPI", "NEFT", "IMPS", "RTGS"}) ) =>
        /\ CategoryRules(text, extract_merchant_from_text(text), suggested_result,
                         debit_amount, credit_amount).category = "emi_loan"
        /\ final_result.category = "emi_loan"

\* A credit row "EMI UPI" with a suggestion of shopping has been normalised.
C10_EMIOverUPI ==
    /\ final_result # NoResult
    /\ text = <<"EMI", "UPI">>
    /\ suggested_result.category = "shopping"
    /\ credit_amount > 0 /\ debit_amount = 0
    /\ final_result.category = "emi_loan"

\* The advisory service was called for the row and what it did.
Consulted ==
    /\ final_result # NoResult
    /\ openai_enabled
    /\ is_rule_weak(text, rule_based_normalize(text, debit_amount, credit_amount))

\* What normalize_transaction returns for the row from the deterministic suggestion alone.
RuleOnlyResult ==
    apply_global_rules(text, rule_based_normalize(text, debit_amount, credit_amount),
                       debit_amount, credit_amount)

\* The answer of the advisory service contradicts the sign of the row.
ContradictsSign ==
    \/ debit_amount > 0 /\ credit_amount = 0 /\ advisory.debit_or_credit = "credit"
    \/ credit_amount > 0 /\ debit_amount = 0 /\ advisory.debit_or_credit = "debit"

\* The answer of the advisory service contradicts a keyword rule: a rule of the ladder
\* matches the description and gives another category than the answer.
ContradictsKeywordRule ==
    \E n \in 1..Len(RuleOrder) :
        /\ Matches(RuleOrder[n], text, DetectChannel(text, "OTHER"))
        /\ Effect(RuleOrder[n], text, extract_merchant_from_text(text), debit_amount,
                  credit_amount, DetectChannel(text, "OTHER")).category
              # category_mapping(lower(advisory.category))

\* C11: when the answer of the advisory service contradicts the debit/credit sign or
\* a keyword rule, none of its fields is used: the final transaction is the one the
\* rule-based suggestion alone gives.
C11_ContradictionDiscardsAdvisory ==
    (Consulted /\ advisory.kind = "answer" /\ (ContradictsSign \/ ContradictsKeywordRule))
        => final_result = RuleOnlyResult

\* The description holds a food brand / a keyword of a rule that precedes food and
\* dining in the ladder.
HasFoodBrand == Word(text, "SWIGGY")
HigherThanFood ==
    \E n \in 1..Len(RuleOrder) :
        /\ Priority[RuleOrder[n]] < Priority["food_dining"]
        /\ Matches(RuleOrder[n], text, DetectChannel(text, "OTHER"))

MalformedOrNetworkError ==
    \/ advisory.kind \in {"not_json", "not_object", "network"}
    \/ advisory.kind = "answer" /\ "null" \in {advisory.category, advisory.channel}

\* C14: after a malformed response or a network error the row is still normalised,
\* and to the result the rule-based suggestion alone gives.
C14_MalformedFallsBack ==
    (Consulted /\ MalformedOrNetworkError) => final_result = RuleOnlyResult

\* The uploads process_pdf_to_mongodb has been called for.
Running == DOMAIN phase

\* Something of the run of upload u is in the collections.
Persisted(u) ==
    \/ \E k \in 1..Len(statements_col) : statements_col[k]._id = u
    \/ \E k \in 1..Len(transactions_col) : transactions_col[k].statementId = u

\* C13: once an advisory call of a run has been refused for invalid credentials,
\* the run does not go on to build its list of normalized transactions and
\* nothing of the run is persisted.
C13_AuthFailureStopsRun ==
    \A u \in Running :
        auth_failed[u] => /\ phase[u] \notin {"normalized", "inserting", "stored"}
                          /\ ~Persisted(u)

\* The position of a raw transaction among the extracted rows of upload u; the
\* rows of a PDF of the model are distinct.
RowOf(u, original) ==
    CHOOSE i \in 1..Len(documents[u].transactions) : documents[u].transactions[i] = original

\* The documents of bank_transactions that reference the statement of upload u,
\* in insertion order.
StoredOf(u) ==
    LET Of(t) == t.statementId = u
    IN  SelectSeq(transactions_col, Of)

\* C16: whatever the order in which the workers complete, the list of normalized
\* transactions of a document, and the transaction documents inserted from it,
\* are in the relative order of the extracted rows they came from.
C16_RowOrderRestored ==
    \A u \in Running :
        /\ \A j, k \in 1..Len(normalized_transactions[u]) :
              j < k => RowOf(u, normalized_transactions[u][j].original)
                          < RowOf(u, normalized_transactions[u][k].original)
        /\ phase[u] = "stored" =>
              StoredOf(u) = [ k \in 1..Len(normalized_transactions[u]) |->
                                 WithUser(transaction_doc(
                                              u, StoredOf(u)[k].bankType,
                                              normalized_transactions[u][k].original),
                                          documents[u].user_id) ]
        /\ phase[u] \in {"normalized", "inserting", "stored"} =>
              Len(normalized_transactions[u]) = Len(txns_to_process(u))

\* C16 witness: a document is stored whose last row was the first to complete.
C16_LastRowCompletedFirst ==
    \E u \in Running :
        /\ phase[u] = "stored"
        /\ Len(completed[u]) = max_txns
        /\ completed[u][1].idx = max_txns
        /\ Len(StoredOf(u)) = max_txns

\* What process_pdf_to_mongodb builds for upload u when no other document is
\* processed during its run.
ProcessedAlone(u) ==
    [ i \in 1..Len(txns_to_process(u)) |->
         [ original   |-> txns_to_process(u)[i],
           normalized |-> normalize_transaction(
                              txns_to_process(u)[i].description,
                              txns_to_process(u)[i].debit, txns_to_process(u)[i].credit,
                              ~(Len(txns_to_process(u)) > disable_openai_threshold),
                              advisory) ] ]

\* C17: the normalized output of a document processed while other documents are
\* processed equals its output when it is processed alone.
C17_SameOutputAsAlone ==
    \A u \in Running :
        phase[u] \in {"normalized", "inserting", "stored"} =>
            normalized_transactions[u] = ProcessedAlone(u)

\* C18: every stored transaction carries the bank type of the stored statement it
\* references.
C18_ChildCarriesParentBank ==
    \A k \in 1..Len(transactions_col) : \A n \in 1..Len(statements_col) :
        transactions_col[k].statementId = statements_col[n]._id =>
            transactions_col[k].bankType = statements_col[n].bankType

\* C18 witness: an uploaded statement and an imported one, of different banks, are
\* stored with their transactions after a deletion has removed another statement.
C18_TwoBanksStored ==
    /\ \E r \in Requests : deletion[r].pc = "returned_true"
    /\ \E k, n \in 1..Len(transactions_col) :
          /\ transactions_col[k].bankType # transactions_col[n].bankType
          /\ \E m \in 1..Len(statements_col) :
                statements_col[m]._id = transactions_col[k].statementId
          /\ \E m \in 1..Len(statements_col) :
                statements_col[m]._id = transactions_col[n].statementId

\* C19: no stored transaction references a statement that is not stored.
C19_NoOrphanTransaction ==
    \A k \in 1..Len(transactions_col) :
        \E n \in 1..Len(statements_col) :
            statements_col[n]._id = transactions_col[k].statementId

\* C20: extract_account_info never returns with an empty or null account number
\* or holder name, and no statement with one is stored.
C20_RequiredFieldsNeverEmpty ==
    /\ account_pc \in {"returned", "stored"} =>
          account_info.account_number # "" /\ account_info.account_holder # <<>>
    /\ \A n \in 1..Len(statements_col) :
          statements_col[n].accountNumber # "" /\ statements_col[n].accountHolder # <<>>

\* C21: for a Central Bank document the holder name extract_account_info returns
\* is the one of the header line next to the title, or there is none.
C21_CBIHolderFromHeaderOnly ==
    (account_pc \in {"returned", "stored"} /\ pdf.bank = "Central Bank of India") =>
        account_info.account_holder \in {pdf.header_holder, <<>>}

\* The text names Central Bank of India, in any spacing or line-break form or by its
\* CBIN routing code; and the same for Union Bank of India and UBIN.
NamesCentralBank(t) == Spaced(t, <<"CENTRAL", "BANK", "OF", "INDIA">>) \/ Contains(t, "CBIN")
NamesUnionBank(t) == Spaced(t, <<"UNION", "BANK", "OF", "INDIA">>) \/ Contains(t, "UBIN")

\* C22: detect_bank returns Central Bank of India for a text that names it (and not
\* Union Bank of India), Union Bank of India for a text that names it (and not Central
\* Bank of India), and "Bank of India" only for a text no other bank's rule matches.
C22_CentralAndUnionBeforeBankOfIndia ==
    account_pc = "stored" =>
        LET t == page_text(pdf.first_page)
        IN  /\ (NamesCentralBank(t) /\ ~NamesUnionBank(t)) => bank = "Central Bank of India"
            /\ (NamesUnionBank(t) /\ ~NamesCentralBank(t)) => bank = "Union Bank of India"
            /\ bank = "Bank of India" =>
                   ~(NamesCentralBank(t) \/ NamesUnionBank(t) \/ Phrase(t, <<"HDFC", "BANK">>))

\* C23: the bank that chooses the transaction extractor, the bank recorded in the
\* account info and the bank type stored on the statement are the same bank.
C23_OneBankIdentity ==
    account_pc = "stored" =>
        /\ bank = account_info.bank_name
        /\ statements_col[1].bankType = detect_bank_type_from_name(bank)

\* The bank types of the banks the pipeline names.
NamedBankTypes == {"SBI", "HDFC", "BOI", "CBI", "UNION", "AXIS"}

\* The names detect_bank gives the banks that have a bank type.
NamedBanks ==
    {"State Bank of India", "HDFC Bank", "Bank of India", "Central Bank of India",
     "Union Bank of India", "Axis Bank"}

\* C24: a statement whose bank the detector did not identify, or identified as a
\* bank outside the named set, is not stored under the bank type of a named bank.
C24_UnidentifiedNotStoredAsNamedBank ==
    account_pc = "stored" =>
        (account_info.bank_name \notin NamedBanks =>
            statements_col[1].bankType \notin NamedBankTypes)

\* C25: a file whose processing fails does not end the batch: no exception leaves
\* the loop, no file is attempted twice, every file the loop has passed was attempted
\* once and its outcome reported, and the batch is complete only when the loop has
\* passed every file.
C25_FailureNeverAbortsBatch ==
    /\ batch.pc # "aborted"
    /\ \A i \in 1..Len(batch.files) :
          /\ batch.attempts[i] = (IF i < batch.next THEN 1 ELSE 0)
          /\ i < batch.next => batch.reported[i] # ""
    /\ batch.pc = "done" => batch.next = Len(batch.files) + 1

\* A batch is complete whose first file raised in the extraction and whose last file
\* was processed with success.
C25_FailureThenSuccess ==
    /\ batch.pc = "done"
    /\ batch.files[1] \in {"extract_raises", "insert_raises"}
    /\ batch.reported[1] \in {"False", "ERROR"}
    /\ batch.reported[Len(batch.files)] \in {"True", "result"}

\* The category the validation tables expect for a description.
expected_category(t) ==
    ValidationTable[CHOOSE k \in 1..Len(ValidationTable) :
                        ValidationTable[k].description = t].expected_category

\* C26: for every description of the validation tables, a suggestion of category
\* transfer and a debit of 100, apply_global_rules returns the category the table
\* expects.
C26_ValidationTablesPass ==
    final_result # NoResult => final_result.category = expected_category(text)

\* C27: when the processing of a document fails after its statement was inserted,
\* no statement and no transaction of the document is in the collections.
C27_FailedDocumentLeavesNothing ==
    \A d \in Running : phase[d] = "raised" => ~Persisted(d)

\* The transactions extract_transactions returned for upload u.
Extracted(u) == documents[u].transactions

\* C28: when the processing of a document has succeeded, as many transaction
\* documents of it are stored as transactions were extracted from it.
C28_EveryExtractedTransactionStored ==
    \A u \in Uploads \cap Running :
        phase[u] = "stored" => Len(StoredOf(u)) = Len(Extracted(u))

\* C29: whatever the interleaving of two uploads, a stored statement is built from
\* the bytes of its own request under the user of its own request, and from its save
\* to the end of its reading the file of a request holds the bytes of that request.
C29_UploadsDoNotInterfere ==
    /\ \A k \in 1..Len(statements_col) :
          /\ statements_col[k].account_from = statements_col[k]._id
          /\ statements_col[k].transactions_from = statements_col[k]._id
          /\ statements_col[k].userId = upload_requests[statements_col[k]._id].user_id
    /\ \A r \in Requests :
          upload_requests[r].pc \in {"saved", "account_read"} =>
              upload_folder[upload_requests[r].filename] = r

\* C30: the list extract_central_bank_state_machine returns for a page, whether
\* its rows are available as table rows, as text lines or as both, does not hold the
\* same transaction twice.
C30_EachPrintedTransactionOnce ==
    status = "returned" =>
        \A i, j \in 1..Len(transactions) : i # j => transactions[i] # transactions[j]

====
